---- MODULE Spec2Model ----
(***************************************************************************)
(* Selection engine (algorithm worker) and engine coordinator of           *)
(* xikipedia.                                                              *)
(*                                                                         *)
(* The engine is src/unnamed/part_008 (the algorithm worker); the          *)
(* coordinator is class AlgorithmWorkerManager of                          *)
(* src/memory/designs/webworker-algorithm.md.                              *)
(*                                                                         *)
(* Math.random() is a nondeterministic choice: every operator that draws   *)
(* random numbers returns the SET of outcomes the draws can produce.       *)
(* Numbers are integers: category scores are multiples of 1000 and the     *)
(* decay factor is kept in thousandths, so the products of the scoring     *)
(* formula are exact.                                                      *)
(***************************************************************************)
EXTENDS Integers, Sequences, FiniteSets, TLC

VARIABLES
    \* ---- engine (worker) module state, part_008 lines 11-29
    pagesArr,                \* sequence of post records (mutable seen, score)
    categoryScores,          \* category -> score (a missing key reads as 0)
    seenPostIds,             \* set of post ids
    categoryLastEngaged,     \* category -> hour of last engagement (0: never)
    hiddenCategories,
    reducedCategories,
    boostedCategories,
    exploredCategories,
    algorithmAggressiveness,
    exploreMode,
    postsSinceRandom,
    lastTopCategory,
    consecutiveSameCategory,
    prefetchQueue,           \* sequence of serialized posts
    \* ---- environment of the engine
    now,                     \* Date.now(), in hours
    \* ---- history of the engine (not program state)
    queueGen,                \* per prefetchQueue entry: settingsGen when selected
    settingsGen,             \* number of UPDATE_FILTERS / UPDATE_SETTINGS handled
    selLog,                  \* summary of the getNextPost calls of the last handler
    lastMsg,                 \* type and requestId of the message handled last
    posted,                  \* the messages the last handler posted
    handled,                 \* number of messages handled
    undelivered,             \* ids that a selection added to seenPostIds and no
                             \* POST_READY has carried since
    \* ---- coordinator (AlgorithmWorkerManager) state
    worker,                  \* this.worker !== null
    pendingRequests,         \* keys of the Map requestId -> {resolve, reject}
    requestIdCounter,
    isReady,
    readyPromise,            \* "null" | "pending" | "resolved"
    readyResolve,            \* this.readyResolve !== null
    syncTimer,               \* the setInterval of _startSyncTimer is running
    initPc,                  \* position of the init() call
    \* ---- environment of the coordinator
    toWorker,                \* worker.postMessage queue (FIFO)
    toMain,                  \* self.postMessage queue (FIFO)
    timers,                  \* requestIds whose setTimeout has not fired yet
    clock,                   \* ms since construction
    mainScores,              \* the main thread's categoryScores
    \* ---- history of the coordinator
    futures,                 \* requestId -> state of the promise returned
    settles,                 \* requestId -> number of resolve/reject calls
    sentAt,                  \* requestId -> clock when GET_NEXT_POST was sent
    lastEvent,               \* what the coordinator did last
    \* ---- ChunkCache (dagster_definitions/SETUP.md lines 397-445)
    maxChunks,
    cache,                   \* keys of the Map chunkId -> ChunkData
    accessOrder,             \* sequence of chunk ids, most recent at the end
    \* ---- ChunkPrefetcher (dagster_definitions/SETUP.md lines 471-529)
    pending,                 \* this.pending: set of chunk ids
    queue,                   \* this.queue: sequence of chunk ids
    \* ---- history of the chunk cache and the prefetcher
    useOrder,                \* cached ids by their most recent get or set, oldest first
    lastOp,                  \* the cache operation run last and what it evicted
    netFetches,              \* chunk id -> fetchChunk calls of the prefetcher in flight
    startLog,                \* fetches the last step started, with the id's state then
    chunkOps,                \* number of cache operations and hints so far
    \* ---- on-demand text fetching (memory/scopes/
    \*      full-wikipedia-chunked-architecture.md lines 362-402, 472-490)
    chunkCache,              \* Map chunkId -> chunk (the request that brought it)
    chunkFetchPromises,      \* Map chunkId -> promise (the request it stands for)
    articleText,             \* article.text of the articles whose text is loaded
    awaiting,                \* calls of ensureArticleText suspended at the await
    requests,                \* chunk id -> the network requests made for it
    \* ---- history of the text fetching
    lastCall,                \* the call of ensureArticleText made last
    fetchOps,                \* number of calls so far
    \* ---- history of the direct calls of getNextPost
    selCalls,                \* number of calls so far
    sinceSerendipity,        \* scored-mode calls since the last serendipity pick
    sawSerendipity,          \* some call so far was a serendipity pick
    lastSel,                 \* the call made last: its path, sample and result
    firstOrder,              \* the ids returned so far, in order of first return
    recentTops,              \* top category of the winners of the last two calls
    \* ---- category expansion (DESIGN.md lines 183-205)
    categoryMap,             \* Map category -> parentCategories (an array)
    recursiveCache,          \* Map category -> Set of categories
    \* ---- history of the category expansion
    lastExpanded,            \* the category expanded last and the set returned
    \* ---- the caller of the coordinator (getNextPostAsync and its page)
    useWorkerAlgorithm,
    \* ---- history of the caller
    lastServed,              \* how the last getNextPostAsync() was served
    asyncCalls,              \* number of getNextPostAsync() calls
    \* ---- history of the decay factor
    lastDecay,               \* the last getDecayFactor call and what it returned
    \* ---- the registration API (src/src/index.ts) and its database
    users,                   \* rows of table users: <<id, username>>
    regPc,                   \* request -> position in handleRegister
    regBody,                 \* request -> username of the JSON body
    regStatus                \* request -> status of the response (0: none yet)

engineVars == <<pagesArr, categoryScores, seenPostIds, categoryLastEngaged,
                hiddenCategories, reducedCategories, boostedCategories,
                exploredCategories, algorithmAggressiveness, exploreMode,
                postsSinceRandom, lastTopCategory, consecutiveSameCategory,
                prefetchQueue, now, queueGen, settingsGen, selLog, lastMsg,
                posted, handled, undelivered>>

coordVars == <<worker, pendingRequests, requestIdCounter, isReady, readyPromise,
               readyResolve, syncTimer, initPc, toWorker, toMain, timers, clock,
               mainScores, futures, settles, sentAt, lastEvent>>

chunkVars == <<maxChunks, cache, accessOrder, pending, queue, useOrder, lastOp,
               netFetches, startLog, chunkOps>>

fetchVars == <<chunkCache, chunkFetchPromises, articleText, awaiting, requests,
               lastCall, fetchOps>>

selVars == <<selCalls, sinceSerendipity, sawSerendipity, lastSel, firstOrder,
             recentTops>>

expandVars == <<categoryMap, recursiveCache, lastExpanded>>

callerVars == <<useWorkerAlgorithm, lastServed, asyncCalls>>

registerVars == <<users, regPc, regBody, regStatus>>

lateVars == <<lastDecay, registerVars>>

auxVars == <<chunkVars, fetchVars, selVars, expandVars, callerVars, lateVars>>

notChunkVars ==
    <<engineVars, coordVars, fetchVars, selVars, expandVars, callerVars, lateVars>>
notFetchVars ==
    <<engineVars, coordVars, chunkVars, selVars, expandVars, callerVars, lateVars>>
notExpandVars ==
    <<engineVars, coordVars, chunkVars, fetchVars, selVars, callerVars, lateVars>>

vars == <<engineVars, coordVars, auxVars>>

----------------------------------------------------------------------------
(* Bounds of the model *)

\* getRandomPost draws up to 1000 times (part_008 line 61); the model draws
\* up to RandomTries times.
RandomTries == 2
\* getNextPost samples 10000 records and then draws up to 10000 more
\* (part_008 lines 120, 164); the model samples SampleSize records and then
\* draws up to SampleSize more.
SampleSize == 2
\* Messages the engine handles in one run of the engine specification.
MaxHandled == 3
\* Calls of the coordinator's getNextPost in one run of the protocol
\* specification.
MaxRequests == 2
\* The protocol specification's clock advances by at most TickMs at a time.
TickMs == 2500

----------------------------------------------------------------------------
(* Program constants *)

PREFETCH_SIZE == 3
TIMEOUT_MS == 5000
ROULETTE_SCAN == 1000

Null == "null"
NoScore == -1000000000      \* post.score === undefined

Cats == {"x", "y"}

\* The posts of spec section 8: A and B in category x, C in category y.
\* allCategories is a Set built from an array: it iterates in array order.
PostA == [id |-> 1, thumb |-> TRUE,  allCategories |-> <<"x">>, seen |-> 0, score |-> NoScore]
PostB == [id |-> 2, thumb |-> FALSE, allCategories |-> <<"x">>, seen |-> 0, score |-> NoScore]
PostC == [id |-> 3, thumb |-> FALSE, allCategories |-> <<"y">>, seen |-> 0, score |-> NoScore]

\* The pool of the engine specification: one post of each category.
Pool == <<PostA, PostC>>

Range(f) == { f[i] : i \in DOMAIN f }

RECURSIVE Pow(_, _)
Pow(b, e) == IF e = 0 THEN 1 ELSE b * Pow(b, e - 1)

Max2(a, b) == IF a >= b THEN a ELSE b

----------------------------------------------------------------------------
(* The engine: src/unnamed/part_008.  Every operator works on a record s  *)
(* of the worker's module variables (the fields of EngineState).          *)

EngineState ==
    [pagesArr |-> pagesArr, categoryScores |-> categoryScores,
     seenPostIds |-> seenPostIds, categoryLastEngaged |-> categoryLastEngaged,
     hiddenCategories |-> hiddenCategories, reducedCategories |-> reducedCategories,
     boostedCategories |-> boostedCategories, exploredCategories |-> exploredCategories,
     algorithmAggressiveness |-> algorithmAggressiveness, exploreMode |-> exploreMode,
     postsSinceRandom |-> postsSinceRandom, lastTopCategory |-> lastTopCategory,
     consecutiveSameCategory |-> consecutiveSameCategory,
     prefetchQueue |-> prefetchQueue, now |-> now,
     queueGen |-> queueGen, settingsGen |-> settingsGen, selLog |-> selLog]

\* getDecayFactor without Math.max(0.1, ...): the factor keeps halving.
getDecayFactorNoFloor(s, category) ==
    LET lastEngaged == s.categoryLastEngaged[category]
        ageHours    == s.now - lastEngaged
    IN  IF lastEngaged = 0 THEN 500
        ELSE IF ageHours < 0 THEN 1000 * Pow(2, 0 - ageHours)
        ELSE 1000 \div Pow(2, ageHours)

\* getDecayFactor, in thousandths: 0.5 when never engaged, else
\* max(0.1, 0.5^ageHours).
getDecayFactor(s, category) ==
    LET lastEngaged == s.categoryLastEngaged[category]
        ageHours    == s.now - lastEngaged
    IN  IF lastEngaged = 0 THEN 500
        ELSE IF ageHours < 0 THEN 1000 * Pow(2, 0 - ageHours)
        ELSE Max2(100, 1000 \div Pow(2, ageHours))

\* markPostSeen(post), post being pagesArr[k]
markPostSeen(s, k) ==
    [s EXCEPT !.seenPostIds = @ \cup {s.pagesArr[k].id},
              !.pagesArr[k].seen = @ + 1]

\* What one call of getNextPost comes to: the state it leaves, the index in
\* pagesArr of the post it returns (0 when it throws), the number of random
\* draws of a post it made, the return statement it left by, and the
\* scored sample potentialPosts when it left by the pick.
Returned(s, k, draws, path) ==
    [s |-> s, k |-> k, err |-> FALSE, draws |-> draws, path |-> path,
     potentialPosts |-> <<>>]
Thrown(s, draws, path) ==
    [s |-> s, k |-> 0, err |-> TRUE, draws |-> draws, path |-> path,
     potentialPosts |-> <<>>]

\* DrawLoop with the fallback draw left out: once the tries are used up the
\* selection throws instead of returning a repeat.
RECURSIVE DrawLoopThrows(_, _, _, _, _)
DrawLoopThrows(s, i, tries, path, fallbackPath) ==
    IF i >= tries
    THEN { Thrown(s, i, fallbackPath) }
    ELSE UNION { IF s.pagesArr[k].id \notin s.seenPostIds
                 THEN { Returned(markPostSeen(s, k), k, i + 1, path) }
                 ELSE DrawLoopThrows(s, i + 1, tries, path, fallbackPath) :
                     k \in 1..Len(s.pagesArr) }

\* for (i = 0; i < tries; i++) { draw; if unseen: mark, return }  then the
\* fallback draw that allows a repeat.  i draws have been made so far.
RECURSIVE DrawLoop(_, _, _, _, _)
DrawLoop(s, i, tries, path, fallbackPath) ==
    IF i >= tries
    THEN { Returned(markPostSeen(s, k), k, i + 1, fallbackPath) :
               k \in 1..Len(s.pagesArr) }
    ELSE UNION { IF s.pagesArr[k].id \notin s.seenPostIds
                 THEN { Returned(markPostSeen(s, k), k, i + 1, path) }
                 ELSE DrawLoop(s, i + 1, tries, path, fallbackPath) :
                     k \in 1..Len(s.pagesArr) }

\* getRandomPost: on an empty pool pagesArr[NaN] is undefined and reading
\* its id throws.
getRandomPost(s) ==
    IF Len(s.pagesArr) = 0 THEN { Thrown(s, 1, "random") }
    ELSE DrawLoop(s, 0, RandomTries, "random", "randomRepeat")

\* The categories the roulette can boost (getNextPost lines 102-115):
\* null when Math.random() >= 0.1 or nothing is unexplored.
RouletteChoices(s) ==
    LET scanned == SubSeq(s.pagesArr, 1, IF Len(s.pagesArr) < ROULETTE_SCAN
                                         THEN Len(s.pagesArr) ELSE ROULETTE_SCAN)
        allCats == UNION { Range(scanned[i].allCategories) : i \in DOMAIN scanned }
        unexplored == { c \in allCats : /\ c \notin s.exploredCategories
                                        /\ c \notin s.hiddenCategories
                                        /\ c # "given names" /\ c # "surnames" }
    IN  {Null} \cup unexplored

\* The score of one category of a post (getNextPost lines 128-153).
CatScore(s, cat, varietyPenaltyCategory, rouletteBoostCategory) ==
    ((s.categoryScores[cat] * s.algorithmAggressiveness * getDecayFactor(s, cat))
         \div (50 * 1000))
    + (IF cat \in s.boostedCategories THEN 2000 ELSE 0)
    - (IF cat \in s.reducedCategories THEN 1500 ELSE 0)
    - (IF cat = varietyPenaltyCategory THEN 5000 ELSE 0)
    + (IF cat = rouletteBoostCategory THEN 3000 ELSE 0)

RECURSIVE SumCats(_, _, _, _, _)
SumCats(s, cats, i, variety, roulette) ==
    IF i > Len(cats) THEN 0
    ELSE CatScore(s, cats[i], variety, roulette) + SumCats(s, cats, i + 1, variety, roulette)

\* post.score of pagesArr[k] (getNextPost lines 126-157)
PostScore(s, k, variety, roulette) ==
    LET post == s.pagesArr[k]
        initialScore == (IF post.thumb THEN 5 ELSE 0)
                        + (Pow(3, post.seen) - 1) * (0 - 500000)
    IN  initialScore + SumCats(s, post.allCategories, 1, variety, roulette)

\* The sampled posts get their score written (post.score = postScore).
WriteScores(s, potentialPosts, variety, roulette) ==
    [s EXCEPT !.pagesArr =
        [k \in DOMAIN s.pagesArr |->
            IF k \in Range(potentialPosts)
            THEN [s.pagesArr[k] EXCEPT !.score = PostScore(s, k, variety, roulette)]
            ELSE s.pagesArr[k]]]

RECURSIVE MinScore(_, _, _)
MinScore(s, pp, i) ==
    IF i = Len(pp) THEN s.pagesArr[pp[i]].score
    ELSE LET m == MinScore(s, pp, i + 1)
         IN  IF s.pagesArr[pp[i]].score < m THEN s.pagesArr[pp[i]].score ELSE m

RECURSIVE SumWeights(_, _, _, _)
SumWeights(s, pp, i, minScore) ==
    IF i > Len(pp) THEN 0
    ELSE (s.pagesArr[pp[i]].score - minScore) + SumWeights(s, pp, i + 1, minScore)

\* while (scoreCount < targetScore && potentialPosts.length) { pop }
\* scoreCount and targetScore in halves.
RECURSIVE WeightedLoop(_, _, _, _, _, _)
WeightedLoop(s, pp, bestPost, scoreCount2, targetScore2, minScore) ==
    IF scoreCount2 < targetScore2 /\ Len(pp) > 0
    THEN LET potentialPost == pp[Len(pp)]
         IN  WeightedLoop(s, SubSeq(pp, 1, Len(pp) - 1), potentialPost,
                          scoreCount2 + 2 * (s.pagesArr[potentialPost].score - minScore),
                          targetScore2, minScore)
    ELSE bestPost

\* The values Math.random() * maxScore can take, in halves: a real in
\* [0, maxScore) (0 when maxScore is 0).  The loop only compares the target
\* with the running sums, which are integers: one target on each sum and one
\* between each two consecutive sums stand for all.
RECURSIVE SuffixSums(_, _, _, _)
SuffixSums(s, pp, n, minScore) ==
    IF n = 0 THEN {0}
    ELSE {SumWeights(s, pp, Len(pp) - n + 1, minScore)} \cup SuffixSums(s, pp, n - 1, minScore)

TargetScores2(s, pp, minScore) ==
    LET maxScore == SumWeights(s, pp, 1, minScore)
        sums == SuffixSums(s, pp, Len(pp), minScore)
    IN  {0} \cup { t \in { 2 * x : x \in sums } \cup { 2 * x - 1 : x \in sums } :
                     t >= 0 /\ t < 2 * maxScore }

\* Highest score selection: forEach with a strict >, from -Infinity.
RECURSIVE HighestLoop(_, _, _, _)
HighestLoop(s, pp, i, bestPost) ==
    IF i > Len(pp) THEN bestPost
    ELSE IF i = 1 \/ s.pagesArr[pp[i]].score > s.pagesArr[bestPost].score
         THEN HighestLoop(s, pp, i + 1, pp[i])
         ELSE HighestLoop(s, pp, i + 1, bestPost)

\* The posts the pick can come to (getNextPost lines 177-200), with the
\* branch taken: Math.random() < 0.4 weighted; else Math.random() > 0.3
\* highest; else bestPost stays potentialPosts[0].
PickChoices(s, pp) ==
    LET minScore == MinScore(s, pp, 1)
    IN  { [k |-> WeightedLoop(s, pp, pp[1], 0, t, minScore), path |-> "weighted"] :
              t \in TargetScores2(s, pp, minScore) }
        \cup { [k |-> HighestLoop(s, pp, 1, pp[1]), path |-> "highest"] }
        \cup { [k |-> pp[1], path |-> "first"] }

\* .sort((a, b) => b.score - a.score) is stable: insertion from the left.
RECURSIVE InsertDesc(_, _, _)
InsertDesc(s, sorted, cat) ==
    IF sorted = <<>> THEN <<cat>>
    ELSE IF s.categoryScores[cat] > s.categoryScores[Head(sorted)]
         THEN <<cat>> \o sorted
         ELSE <<Head(sorted)>> \o InsertDesc(s, Tail(sorted), cat)

RECURSIVE SortDesc(_, _, _)
SortDesc(s, cats, i) ==
    IF i = 0 THEN <<>>
    ELSE InsertDesc(s, SortDesc(s, cats, i - 1), cats[i])

\* categoryContributions of bestPost (getNextPost lines 205-209)
categoryContributions(s, k) ==
    LET positive == SelectSeq(s.pagesArr[k].allCategories,
                              LAMBDA cat : s.categoryScores[cat] > 0)
        sorted == SortDesc(s, positive, Len(positive))
    IN  SubSeq(sorted, 1, IF Len(sorted) < 3 THEN Len(sorted) ELSE 3)

\* markPostSeen(bestPost) and the variety bookkeeping (lines 202-226)
Bookkeeping(s, k) ==
    LET s1 == markPostSeen(s, k)
        contributions == categoryContributions(s1, k)
    IN  IF Len(contributions) > 0
        THEN LET topCat == contributions[1]
             IN  IF topCat = s1.lastTopCategory
                 THEN [s1 EXCEPT !.consecutiveSameCategory = @ + 1]
                 ELSE [s1 EXCEPT !.lastTopCategory = topCat,
                                 !.consecutiveSameCategory = 1]
        ELSE [s1 EXCEPT !.lastTopCategory = Null,
                        !.consecutiveSameCategory = 0]

\* let varietyPenaltyCategory (lines 95-98)
VarietyPenaltyCategory(s) ==
    IF s.consecutiveSameCategory >= 2 /\ s.lastTopCategory # Null
    THEN s.lastTopCategory ELSE Null

\* The top-contributing category of pagesArr[k]: categoryContributions[0].cat,
\* null when no category of the post has a positive score.
TopCategory(s, k) ==
    LET contributions == categoryContributions(s, k)
    IN  IF Len(contributions) > 0 THEN contributions[1] ELSE Null

\* getNextPost from the variety enforcement on (lines 93-234); s has
\* postsSinceRandom already incremented.
ScoredPost(s) ==
    LET varietyPenaltyCategory == VarietyPenaltyCategory(s)
    IN  IF Len(s.pagesArr) = 0 THEN { Thrown(s, 1, "scored") }
        ELSE UNION {
          UNION {
            LET s1 == WriteScores(s, potentialPosts, varietyPenaltyCategory,
                                  rouletteBoostCategory)
            IN  IF Len(potentialPosts) = 0
                THEN { [o EXCEPT !.draws = @ + SampleSize] :
                           o \in DrawLoop(s1, 0, SampleSize, "harder", "harderRepeat") }
                ELSE { [Returned(Bookkeeping(s1, c.k), c.k, SampleSize, c.path)
                            EXCEPT !.potentialPosts = potentialPosts] :
                           c \in PickChoices(s1, potentialPosts) }
            : potentialPosts \in
                  { SelectSeq(sample, LAMBDA k : s.pagesArr[k].id \notin s.seenPostIds) :
                        sample \in [1..SampleSize -> 1..Len(s.pagesArr)] } }
          : rouletteBoostCategory \in RouletteChoices(s) }

\* getNextPostBody with the threshold drawn one too low: 4 + floor(...).
getNextPostBodyEarlyThreshold(s) ==
    IF s.exploreMode \/ s.algorithmAggressiveness = 0
    THEN getRandomPost(s)
    ELSE LET s1 == [s EXCEPT !.postsSinceRandom = @ + 1]
             injects == { s1.postsSinceRandom >= serendipityThreshold :
                              serendipityThreshold \in 4..9 }
         IN  UNION { IF inject
                     THEN getRandomPost([s1 EXCEPT !.postsSinceRandom = 0])
                     ELSE ScoredPost(s1) : inject \in injects }

\* getNextPostBody without the test of the aggressiveness: only explore
\* mode takes the random path.
getNextPostBodyExploreOnly(s) ==
    IF s.exploreMode
    THEN getRandomPost(s)
    ELSE LET s1 == [s EXCEPT !.postsSinceRandom = @ + 1]
             injects == { s1.postsSinceRandom >= serendipityThreshold :
                              serendipityThreshold \in 5..10 }
         IN  UNION { IF inject
                     THEN getRandomPost([s1 EXCEPT !.postsSinceRandom = 0])
                     ELSE ScoredPost(s1) : inject \in injects }

\* getNextPost (lines 78-91)
getNextPostBody(s) ==
    IF s.exploreMode \/ s.algorithmAggressiveness = 0
    THEN getRandomPost(s)
    ELSE LET s1 == [s EXCEPT !.postsSinceRandom = @ + 1]
             \* postsSinceRandom >= 5 + floor(Math.random() * 6)
             injects == { s1.postsSinceRandom >= serendipityThreshold :
                              serendipityThreshold \in 5..10 }
         IN  UNION { IF inject
                     THEN getRandomPost([s1 EXCEPT !.postsSinceRandom = 0])
                     ELSE ScoredPost(s1) : inject \in injects }

\* getNextPost, with the call entered in the summary selLog of the handler:
\* repeat: the id returned was in seenPostIds when the call began;
\* exhausted: the pool was not empty and every id of it was in seenPostIds.
getNextPost(s) ==
    { LET repeat == ~o.err /\ s.pagesArr[o.k].id \in s.seenPostIds
          exhausted == /\ Len(s.pagesArr) > 0
                       /\ \A i \in DOMAIN s.pagesArr : s.pagesArr[i].id \in s.seenPostIds
      IN  [k |-> o.k, err |-> o.err, s |-> [o.s EXCEPT !.selLog =
              [calls |-> @.calls + 1,
               errors |-> @.errors + (IF o.err THEN 1 ELSE 0),
               repeats |-> @.repeats + (IF repeat THEN 1 ELSE 0),
               premature |-> @.premature + (IF repeat /\ ~exhausted THEN 1 ELSE 0),
               exhausted |-> @.exhausted + (IF exhausted THEN 1 ELSE 0),
               exhaustedRepeats |-> @.exhaustedRepeats
                                      + (IF exhausted /\ repeat THEN 1 ELSE 0),
               exhaustedDraws |-> IF exhausted THEN Max2(@.exhaustedDraws, o.draws)
                                  ELSE @.exhaustedDraws]]] :
        o \in getNextPostBody(s) }

\* serializePost (title, text and chunkId are not modelled)
serializePost(post) ==
    [id |-> post.id, thumb |-> post.thumb,
     allCategories |-> post.allCategories, score |-> post.score]

\* fillPrefetchQueue: a throw of getNextPost is caught and ends the loop.
RECURSIVE fillPrefetchQueue(_)
fillPrefetchQueue(s) ==
    IF Len(s.prefetchQueue) >= PREFETCH_SIZE THEN {s}
    ELSE UNION { IF o.err THEN {o.s}
                 ELSE fillPrefetchQueue(
                          [o.s EXCEPT !.prefetchQueue =
                                          Append(@, serializePost(o.s.pagesArr[o.k])),
                                      !.queueGen = Append(@, o.s.settingsGen)]) :
                     o \in getNextPost(s) }

\* What one run of self.onmessage comes to: the state it leaves and the
\* messages it posted, in order.
Handled(s, out) == [s |-> s, out |-> out]

ReadyMsg == [type |-> "READY"]
ErrorMsg(requestId) == [type |-> "ERROR", requestId |-> requestId]
PostReadyMsg(requestId, post, gen, s) ==
    [type |-> "POST_READY", requestId |-> requestId,
     payload |-> [post |-> post, prefetchAvailable |-> Len(s.prefetchQueue)],
     gen |-> gen]

\* case 'INIT' (the posts arrive with allCategories as arrays)
HandleInit(s, payload) ==
    LET s1 == [s EXCEPT !.pagesArr = payload.pagesArr,
                        !.categoryScores = payload.categoryScores,
                        !.seenPostIds = payload.seenPostIds,
                        !.categoryLastEngaged = payload.categoryLastEngaged,
                        !.hiddenCategories = payload.hiddenCategories,
                        !.reducedCategories = payload.reducedCategories,
                        !.boostedCategories = payload.boostedCategories,
                        !.exploredCategories = payload.exploredCategories,
                        !.algorithmAggressiveness = payload.algorithmAggressiveness,
                        !.exploreMode = payload.exploreMode]
    IN  { Handled(s2, <<ReadyMsg>>) : s2 \in fillPrefetchQueue(s1) }

\* HandleGetNextPost without the outer catch: a throw of getNextPost ends
\* the handler with nothing posted.
HandleGetNextPostNoCatch(s, requestId) ==
    IF Len(s.prefetchQueue) > 0
    THEN LET post == Head(s.prefetchQueue)
             gen  == Head(s.queueGen)
             s1   == [s EXCEPT !.prefetchQueue = Tail(@), !.queueGen = Tail(@)]
         IN  { Handled(s2, <<PostReadyMsg(requestId, post, gen, s2)>>) :
                   s2 \in fillPrefetchQueue(s1) }
    ELSE UNION { IF o.err THEN { Handled(o.s, <<>>) }
                 ELSE { Handled(s2, <<PostReadyMsg(requestId,
                                          serializePost(o.s.pagesArr[o.k]),
                                          o.s.settingsGen, s2)>>) :
                            s2 \in fillPrefetchQueue(o.s) } :
                     o \in getNextPost(s) }

\* HandleGetNextPost as the design document has it: the reply is posted
\* before fillPrefetchQueue runs.
HandleGetNextPostReplyFirst(s, requestId) ==
    IF Len(s.prefetchQueue) > 0
    THEN LET post == Head(s.prefetchQueue)
             gen  == Head(s.queueGen)
             s1   == [s EXCEPT !.prefetchQueue = Tail(@), !.queueGen = Tail(@)]
         IN  { Handled(s2, <<PostReadyMsg(requestId, post, gen, s1)>>) :
                   s2 \in fillPrefetchQueue(s1) }
    ELSE UNION { IF o.err THEN { Handled(o.s, <<ErrorMsg(requestId)>>) }
                 ELSE { Handled(s2, <<PostReadyMsg(requestId,
                                          serializePost(o.s.pagesArr[o.k]),
                                          o.s.settingsGen, o.s)>>) :
                            s2 \in fillPrefetchQueue(o.s) } :
                     o \in getNextPost(s) }

\* HandleGetNextPost with prefetchQueue.pop() for prefetchQueue.shift(): the
\* post enqueued last is the one delivered.
HandleGetNextPostPops(s, requestId) ==
    IF Len(s.prefetchQueue) > 0
    THEN LET n    == Len(s.prefetchQueue)
             post == s.prefetchQueue[n]
             gen  == s.queueGen[n]
             s1   == [s EXCEPT !.prefetchQueue = SubSeq(@, 1, n - 1),
                               !.queueGen = SubSeq(@, 1, n - 1)]
         IN  { Handled(s2, <<PostReadyMsg(requestId, post, gen, s2)>>) :
                   s2 \in fillPrefetchQueue(s1) }
    ELSE UNION { IF o.err THEN { Handled(o.s, <<ErrorMsg(requestId)>>) }
                 ELSE { Handled(s2, <<PostReadyMsg(requestId,
                                          serializePost(o.s.pagesArr[o.k]),
                                          o.s.settingsGen, s2)>>) :
                            s2 \in fillPrefetchQueue(o.s) } :
                     o \in getNextPost(s) }

\* case 'GET_NEXT_POST': a throw of getNextPost reaches the outer catch,
\* which posts ERROR with the requestId of the message.
HandleGetNextPost(s, requestId) ==
    IF Len(s.prefetchQueue) > 0
    THEN LET post == Head(s.prefetchQueue)
             gen  == Head(s.queueGen)
             s1   == [s EXCEPT !.prefetchQueue = Tail(@), !.queueGen = Tail(@)]
         IN  { Handled(s2, <<PostReadyMsg(requestId, post, gen, s2)>>) :
                   s2 \in fillPrefetchQueue(s1) }
    ELSE UNION { IF o.err THEN { Handled(o.s, <<ErrorMsg(requestId)>>) }
                 ELSE { Handled(s2, <<PostReadyMsg(requestId,
                                          serializePost(o.s.pagesArr[o.k]),
                                          o.s.settingsGen, s2)>>) :
                            s2 \in fillPrefetchQueue(o.s) } :
                     o \in getNextPost(s) }

\* HandlePrefetch that starts the refill from an empty score table.
HandlePrefetchClearsScores(s) ==
    { Handled(s2, <<[type |-> "PREFETCH_READY", count |-> Len(s2.prefetchQueue)]>>) :
          s2 \in fillPrefetchQueue([s EXCEPT !.categoryScores = [c \in DOMAIN @ |-> 0]]) }

\* case 'PREFETCH'
HandlePrefetch(s) ==
    { Handled(s2, <<[type |-> "PREFETCH_READY", count |-> Len(s2.prefetchQueue)]>>) :
          s2 \in fillPrefetchQueue(s) }

\* HandleUpdateScores that keeps the scores it has, whatever the payload.
HandleUpdateScoresIgnored(s, payload) ==
    { Handled(s, <<>>) }

\* case 'UPDATE_SCORES': categoryScores = payload.categoryScores || categoryScores
HandleUpdateScores(s, payload) ==
    { Handled([s EXCEPT !.categoryScores =
                   IF "categoryScores" \in DOMAIN payload THEN payload.categoryScores ELSE @],
              <<>>) }

\* ClearQueue that also takes back the seen mark of the posts it drops.
ClearQueueUnsees(s) ==
    LET dropped == { s.prefetchQueue[i].id : i \in DOMAIN s.prefetchQueue }
    IN  [s EXCEPT !.prefetchQueue = <<>>, !.queueGen = <<>>,
                  !.pagesArr = [k \in DOMAIN @ |->
                                   IF @[k].id \in dropped /\ @[k].seen > 0
                                   THEN [@[k] EXCEPT !.seen = @ - 1] ELSE @[k]]]

ClearQueue(s) == [s EXCEPT !.prefetchQueue = <<>>, !.queueGen = <<>>]

\* HandleUpdateFilters without `prefetchQueue = []`: the refill only tops
\* up what the queue already held.
HandleUpdateFiltersKeepsQueue(s, payload) ==
    LET s1 == [s EXCEPT
                 !.hiddenCategories  = IF "hidden" \in DOMAIN payload THEN payload.hidden ELSE @,
                 !.reducedCategories = IF "reduced" \in DOMAIN payload THEN payload.reduced ELSE @,
                 !.boostedCategories = IF "boosted" \in DOMAIN payload THEN payload.boosted ELSE @,
                 !.settingsGen = @ + 1]
    IN  { Handled(s2, <<>>) : s2 \in fillPrefetchQueue(s1) }

\* case 'UPDATE_FILTERS' (a field that is not given is absent from the record)
HandleUpdateFilters(s, payload) ==
    LET s1 == [s EXCEPT
                 !.hiddenCategories  = IF "hidden" \in DOMAIN payload THEN payload.hidden ELSE @,
                 !.reducedCategories = IF "reduced" \in DOMAIN payload THEN payload.reduced ELSE @,
                 !.boostedCategories = IF "boosted" \in DOMAIN payload THEN payload.boosted ELSE @,
                 !.settingsGen = @ + 1]
    IN  { Handled(s2, <<>>) : s2 \in fillPrefetchQueue(ClearQueue(s1)) }

\* HandleUpdateSettings without `prefetchQueue = []`.
HandleUpdateSettingsKeepsQueue(s, payload) ==
    LET s1 == [s EXCEPT
                 !.algorithmAggressiveness =
                     IF "algorithmAggressiveness" \in DOMAIN payload
                     THEN payload.algorithmAggressiveness ELSE @,
                 !.exploreMode =
                     IF "exploreMode" \in DOMAIN payload THEN payload.exploreMode ELSE @,
                 !.settingsGen = @ + 1]
    IN  { Handled(s2, <<>>) : s2 \in fillPrefetchQueue(s1) }

\* case 'UPDATE_SETTINGS' (a field that is undefined is absent from the record)
HandleUpdateSettings(s, payload) ==
    LET s1 == [s EXCEPT
                 !.algorithmAggressiveness =
                     IF "algorithmAggressiveness" \in DOMAIN payload
                     THEN payload.algorithmAggressiveness ELSE @,
                 !.exploreMode =
                     IF "exploreMode" \in DOMAIN payload THEN payload.exploreMode ELSE @,
                 !.settingsGen = @ + 1]
    IN  { Handled(s2, <<>>) : s2 \in fillPrefetchQueue(ClearQueue(s1)) }

\* case 'MARK_SEEN'
HandleMarkSeen(s, payload) ==
    { Handled([s EXCEPT !.seenPostIds = @ \cup {payload.postId}], <<>>) }

\* case 'ENGAGE_CATEGORY'
HandleEngageCategory(s, payload) ==
    { Handled([s EXCEPT !.categoryLastEngaged[payload.category] = payload.timestamp],
              <<>>) }

\* case 'SYNC_EXPLORED'
HandleSyncExplored(s, payload) ==
    { Handled([s EXCEPT !.exploredCategories = payload.exploredCategories], <<>>) }

\* HandleReset that also forgets the explored categories.
HandleResetClearsExplored(s) ==
    LET s1 == [s EXCEPT !.pagesArr = [k \in DOMAIN s.pagesArr |->
                                          [s.pagesArr[k] EXCEPT !.seen = 0]],
                        !.exploredCategories = {},
                        !.postsSinceRandom = 0,
                        !.lastTopCategory = Null,
                        !.consecutiveSameCategory = 0]
    IN  { Handled(s2, <<ReadyMsg>>) : s2 \in fillPrefetchQueue(ClearQueue(s1)) }

\* case 'RESET': delete p.seen on every post, empty the queue, zero the
\* variety counters, refill, post READY.  seenPostIds is not assigned.
HandleReset(s) ==
    LET s1 == [s EXCEPT !.pagesArr = [k \in DOMAIN s.pagesArr |->
                                          [s.pagesArr[k] EXCEPT !.seen = 0]],
                        !.postsSinceRandom = 0,
                        !.lastTopCategory = Null,
                        !.consecutiveSameCategory = 0]
    IN  { Handled(s2, <<ReadyMsg>>) : s2 \in fillPrefetchQueue(ClearQueue(s1)) }

\* case 'GET_SEEN_IDS'
HandleGetSeenIds(s) ==
    { Handled(s, <<[type |-> "SEEN_SYNC", seenPostIds |-> s.seenPostIds]>>) }

\* self.onmessage: the switch on the type of the message
onmessage(s, m) ==
    CASE m.type = "INIT"            -> HandleInit(s, m.payload)
      [] m.type = "GET_NEXT_POST"   -> HandleGetNextPost(s, m.requestId)
      [] m.type = "PREFETCH"        -> HandlePrefetch(s)
      [] m.type = "UPDATE_SCORES"   -> HandleUpdateScores(s, m.payload)
      [] m.type = "UPDATE_FILTERS"  -> HandleUpdateFilters(s, m.payload)
      [] m.type = "UPDATE_SETTINGS" -> HandleUpdateSettings(s, m.payload)
      [] m.type = "MARK_SEEN"       -> HandleMarkSeen(s, m.payload)
      [] m.type = "ENGAGE_CATEGORY" -> HandleEngageCategory(s, m.payload)
      [] m.type = "SYNC_EXPLORED"   -> HandleSyncExplored(s, m.payload)
      [] m.type = "RESET"           -> HandleReset(s)
      [] m.type = "GET_SEEN_IDS"    -> HandleGetSeenIds(s)
      [] OTHER                      -> { Handled(s, <<>>) }

NoCalls == [calls |-> 0, errors |-> 0, repeats |-> 0, premature |-> 0,
            exhausted |-> 0, exhaustedRepeats |-> 0, exhaustedDraws |-> 0]

\* The worker runs self.onmessage on message m, to completion.
Receive(m) ==
    \E o \in onmessage([EngineState EXCEPT !.selLog = NoCalls], m) :
        /\ pagesArr' = o.s.pagesArr
        /\ categoryScores' = o.s.categoryScores
        /\ seenPostIds' = o.s.seenPostIds
        /\ categoryLastEngaged' = o.s.categoryLastEngaged
        /\ hiddenCategories' = o.s.hiddenCategories
        /\ reducedCategories' = o.s.reducedCategories
        /\ boostedCategories' = o.s.boostedCategories
        /\ exploredCategories' = o.s.exploredCategories
        /\ algorithmAggressiveness' = o.s.algorithmAggressiveness
        /\ exploreMode' = o.s.exploreMode
        /\ postsSinceRandom' = o.s.postsSinceRandom
        /\ lastTopCategory' = o.s.lastTopCategory
        /\ consecutiveSameCategory' = o.s.consecutiveSameCategory
        /\ prefetchQueue' = o.s.prefetchQueue
        /\ queueGen' = o.s.queueGen
        /\ settingsGen' = o.s.settingsGen
        /\ selLog' = o.s.selLog
        /\ posted' = o.out
        /\ lastMsg' = [type |-> m.type,
                        requestId |-> IF "requestId" \in DOMAIN m THEN m.requestId ELSE 0]
        /\ handled' = handled + 1
        /\ undelivered' =
               LET before == IF m.type = "INIT" THEN m.payload.seenPostIds
                             ELSE seenPostIds
                   selected == IF m.type = "MARK_SEEN" THEN {}
                               ELSE o.s.seenPostIds \ before
                   carried == {o.out[i].payload.post.id :
                                  i \in {j \in DOMAIN o.out : o.out[j].type = "POST_READY"}}
               IN  ((IF m.type = "INIT" THEN {} ELSE undelivered) \cup selected)
                       \ carried
        /\ UNCHANGED now

----------------------------------------------------------------------------
(* The messages of the runs checked *)

NoCats == [c \in Cats |-> 0]
ScoreMaps == { NoCats, [c \in Cats |-> IF c = "x" THEN 1000 ELSE 0] }

InitPayloads ==
    { [pagesArr |-> p.pa, categoryScores |-> [c \in Cats |-> IF c = "x" THEN 1000 ELSE 0],
       seenPostIds |-> p.sp,
       categoryLastEngaged |-> NoCats,
       hiddenCategories |-> {}, reducedCategories |-> {}, boostedCategories |-> {},
       exploredCategories |-> {"x"}, algorithmAggressiveness |-> 50, exploreMode |-> p.em] :
        p \in { [pa |-> <<>>, sp |-> {}, em |-> FALSE],
                [pa |-> Pool, sp |-> {}, em |-> TRUE],
                [pa |-> Pool, sp |-> {1}, em |-> FALSE] } }

FilterPayloads ==
    { [hidden |-> {"y"}, reduced |-> {"x"}, boosted |-> {}],
      [boosted |-> {"y"}] }

SettingsPayloads ==
    { [algorithmAggressiveness |-> 0],
      [algorithmAggressiveness |-> 100, exploreMode |-> FALSE] }

EngineInit ==
    /\ pagesArr = <<>>
    /\ categoryScores = NoCats
    /\ seenPostIds = {}
    /\ categoryLastEngaged = NoCats
    /\ hiddenCategories = {}
    /\ reducedCategories = {}
    /\ boostedCategories = {}
    /\ exploredCategories = {}
    /\ algorithmAggressiveness = 50
    /\ exploreMode = FALSE
    /\ postsSinceRandom = 0
    /\ lastTopCategory = Null
    /\ consecutiveSameCategory = 0
    /\ prefetchQueue = <<>>
    /\ now = 1
    /\ queueGen = <<>>
    /\ settingsGen = 0
    /\ selLog = NoCalls
    /\ lastMsg = [type |-> "NONE", requestId |-> 0]
    /\ posted = <<>>
    /\ handled = 0
    /\ undelivered = {}

CoordInit ==
    /\ worker = FALSE
    /\ pendingRequests = {}
    /\ requestIdCounter = 0
    /\ isReady = FALSE
    /\ readyPromise = "null"
    /\ readyResolve = FALSE
    /\ syncTimer = FALSE
    /\ initPc = "idle"
    /\ toWorker = <<>>
    /\ toMain = <<>>
    /\ timers = {}
    /\ clock = 0
    /\ mainScores = NoCats
    /\ futures = <<>>
    /\ settles = <<>>
    /\ sentAt = <<>>
    /\ lastEvent = [type |-> "NONE"]

\* Chunk ids are 1..NumChunks.
NumChunks == 4
ChunkIds == 1..NumChunks

NoOp == [op |-> "none", id |-> 0, hit |-> FALSE, full |-> FALSE, evicted |-> <<>>]

\* The chunk cache and the prefetcher before any use.
ChunkIdle ==
    /\ maxChunks = 1
    /\ cache = {}
    /\ accessOrder = <<>>
    /\ pending = {}
    /\ queue = <<>>
    /\ useOrder = <<>>
    /\ lastOp = NoOp
    /\ netFetches = [id \in ChunkIds |-> 0]
    /\ startLog = <<>>
    /\ chunkOps = 0

\* The chunks of the text fetching are 1..NumTextChunks.
NumTextChunks == 2
TextChunkIds == 1..NumTextChunks

EmptyMap == [x \in {} |-> 0]

NoCall == [op |-> "none", id |-> 0, loaded |-> FALSE, cached |-> FALSE,
           failed |-> FALSE, issued |-> FALSE]

\* The text fetching before any use.
FetchIdle ==
    /\ chunkCache = EmptyMap
    /\ chunkFetchPromises = EmptyMap
    /\ articleText = EmptyMap
    /\ awaiting = {}
    /\ requests = [id \in TextChunkIds |-> <<>>]
    /\ lastCall = NoCall
    /\ fetchOps = 0

NoSel == [op |-> "none", path |-> "none", k |-> 0, nth |-> 0,
          potentialPosts |-> <<>>, variety |-> Null, tops |-> <<>>]

\* No direct call of getNextPost was made.
SelectIdle ==
    /\ selCalls = 0
    /\ sinceSerendipity = 0
    /\ sawSerendipity = FALSE
    /\ lastSel = NoSel
    /\ firstOrder = <<>>
    /\ recentTops = <<>>

NoExpansion == [category |-> 0, result |-> {}]

\* No category hierarchy is loaded.
ExpandIdle ==
    /\ categoryMap = EmptyMap
    /\ recursiveCache = EmptyMap
    /\ lastExpanded = NoExpansion

NotServed == [by |-> "none", err |-> FALSE, k |-> 0, init |-> "idle"]

\* let useWorkerAlgorithm = false; no post has been asked for.
CallerIdle ==
    /\ useWorkerAlgorithm = FALSE
    /\ lastServed = NotServed
    /\ asyncCalls = 0

NoDecay == [category |-> "none", elapsed |-> 0, factor |-> 0]

\* The requests of the registration runs.
NumRequests == 2
Requests == 1..NumRequests

\* No decay factor was asked for; no registration request has arrived.
LateIdle ==
    /\ lastDecay = NoDecay
    /\ users = <<>>
    /\ regPc = [r \in Requests |-> "none"]
    /\ regBody = [r \in Requests |-> ""]
    /\ regStatus = [r \in Requests |-> 0]

Init ==
    /\ EngineInit /\ CoordInit
    /\ ChunkIdle /\ FetchIdle /\ SelectIdle /\ ExpandIdle /\ CallerIdle /\ LateIdle

(* The engine alone: any coordinator may send it any message. *)
RecvInit ==
    /\ handled = 0
    /\ \E p \in InitPayloads : Receive([type |-> "INIT", payload |-> p])
    /\ UNCHANGED coordVars
    /\ UNCHANGED auxVars
RecvGetNextPost ==
    /\ handled < MaxHandled
    /\ Receive([type |-> "GET_NEXT_POST", requestId |-> handled + 1])
    /\ UNCHANGED coordVars
    /\ UNCHANGED auxVars
RecvPrefetch ==
    /\ handled < MaxHandled
    /\ Receive([type |-> "PREFETCH"])
    /\ UNCHANGED coordVars
    /\ UNCHANGED auxVars
RecvUpdateScores ==
    /\ handled < MaxHandled
    /\ \E p \in { [categoryScores |-> NoCats], [none |-> TRUE] } :
           Receive([type |-> "UPDATE_SCORES", payload |-> p])
    /\ UNCHANGED coordVars
    /\ UNCHANGED auxVars
RecvUpdateFilters ==
    /\ handled < MaxHandled
    /\ \E p \in FilterPayloads : Receive([type |-> "UPDATE_FILTERS", payload |-> p])
    /\ UNCHANGED coordVars
    /\ UNCHANGED auxVars
RecvUpdateSettings ==
    /\ handled < MaxHandled
    /\ \E p \in SettingsPayloads : Receive([type |-> "UPDATE_SETTINGS", payload |-> p])
    /\ UNCHANGED coordVars
    /\ UNCHANGED auxVars
RecvMarkSeen ==
    /\ handled < MaxHandled
    /\ \E id \in {3} : Receive([type |-> "MARK_SEEN", payload |-> [postId |-> id]])
    /\ UNCHANGED coordVars
    /\ UNCHANGED auxVars
RecvSyncExplored ==
    /\ handled < MaxHandled
    /\ Receive([type |-> "SYNC_EXPLORED", payload |-> [exploredCategories |-> {"y"}]])
    /\ UNCHANGED coordVars
    /\ UNCHANGED auxVars
RecvReset ==
    /\ handled < MaxHandled
    /\ Receive([type |-> "RESET"])
    /\ UNCHANGED coordVars
    /\ UNCHANGED auxVars
RecvGetSeenIds ==
    /\ handled < MaxHandled
    /\ Receive([type |-> "GET_SEEN_IDS"])
    /\ UNCHANGED coordVars
    /\ UNCHANGED auxVars

Next ==
    \/ RecvInit
    \/ RecvGetNextPost
    \/ RecvPrefetch
    \/ RecvUpdateScores
    \/ RecvUpdateFilters
    \/ RecvUpdateSettings
    \/ RecvMarkSeen
    \/ RecvSyncExplored
    \/ RecvReset
    \/ RecvGetSeenIds

Spec == Init /\ [][Next]_vars

----------------------------------------------------------------------------
(* The coordinator: class AlgorithmWorkerManager of                       *)
(* src/memory/designs/webworker-algorithm.md, with the worker it talks to. *)

SetAt(f, i, v) == [f EXCEPT ![i] = v]

\* A future is "pending", "resolved", or rejected with new Error('Worker
\* timeout'), new Error('Worker crashed') or new Error(payload.message).
Rejections == {"timeout", "crashed", "error"}

\* init(pagesArr, initialState) when Worker is undefined: returns false.
CallInitFallback ==
    /\ initPc = "idle"
    /\ initPc' = "fallback"
    /\ lastEvent' = [type |-> "initFallback"]
    /\ UNCHANGED <<worker, pendingRequests, requestIdCounter, isReady, readyPromise,
                   readyResolve, syncTimer, toWorker, toMain, timers, clock,
                   mainScores, futures, settles, sentAt>>
    /\ UNCHANGED engineVars
    /\ UNCHANGED auxVars

\* CallInit without `await this.readyPromise`: init() marks the coordinator
\* ready and starts the timer as soon as INIT is posted.
CallInitNoAwait ==
    /\ initPc = "idle"
    /\ \E p \in { q \in InitPayloads : q.seenPostIds = {} } :
           toWorker' = Append(toWorker, [type |-> "INIT", payload |-> p])
    /\ worker' = TRUE
    /\ readyPromise' = "pending"
    /\ readyResolve' = TRUE
    /\ isReady' = TRUE
    /\ syncTimer' = TRUE
    /\ initPc' = "done"
    /\ lastEvent' = [type |-> "init"]
    /\ UNCHANGED <<pendingRequests, requestIdCounter, toMain,
                   timers, clock, mainScores, futures, settles, sentAt>>
    /\ UNCHANGED engineVars
    /\ UNCHANGED auxVars

\* init(pagesArr, initialState) up to `await this.readyPromise`.
CallInit ==
    /\ initPc = "idle"
    /\ \E p \in { q \in InitPayloads : q.seenPostIds = {} } :
           toWorker' = Append(toWorker, [type |-> "INIT", payload |-> p])
    /\ worker' = TRUE
    /\ readyPromise' = "pending"
    /\ readyResolve' = TRUE
    /\ initPc' = "awaiting"
    /\ lastEvent' = [type |-> "init"]
    /\ UNCHANGED <<pendingRequests, requestIdCounter, isReady, syncTimer, toMain,
                   timers, clock, mainScores, futures, settles, sentAt>>
    /\ UNCHANGED engineVars
    /\ UNCHANGED auxVars

\* CallGetNextPost with a counter that starts again at 1 whenever no request
\* is pending.
CallGetNextPostRestartsIds ==
    /\ isReady
    /\ Len(sentAt) < MaxRequests
    /\ LET requestId == IF pendingRequests = {} THEN 1 ELSE requestIdCounter + 1
       IN  /\ requestIdCounter' = requestId
           /\ pendingRequests' = pendingRequests \cup {requestId}
           /\ toWorker' = Append(toWorker, [type |-> "GET_NEXT_POST",
                                            requestId |-> requestId])
           /\ timers' = timers \cup {requestId}
           /\ futures' = Append(futures, "pending")
           /\ settles' = Append(settles, 0)
           /\ sentAt' = Append(sentAt, clock)
           /\ lastEvent' = [type |-> "getNextPost", requestId |-> requestId]
    /\ UNCHANGED <<worker, isReady, readyPromise, readyResolve, syncTimer, initPc,
                   toMain, clock, mainScores>>
    /\ UNCHANGED engineVars
    /\ UNCHANGED auxVars

\* getNextPost(), called by getNextPostAsync only when isReady: registers
\* the request, posts GET_NEXT_POST and arms the 5 s timeout.
CallGetNextPost ==
    /\ isReady
    /\ requestIdCounter < MaxRequests
    /\ LET requestId == requestIdCounter + 1
       IN  /\ requestIdCounter' = requestId
           /\ pendingRequests' = pendingRequests \cup {requestId}
           /\ toWorker' = Append(toWorker, [type |-> "GET_NEXT_POST",
                                            requestId |-> requestId])
           /\ timers' = timers \cup {requestId}
           /\ futures' = Append(futures, "pending")
           /\ settles' = Append(settles, 0)
           /\ sentAt' = Append(sentAt, clock)
           /\ lastEvent' = [type |-> "getNextPost", requestId |-> requestId]
    /\ UNCHANGED <<worker, isReady, readyPromise, readyResolve, syncTimer, initPc,
                   toMain, clock, mainScores>>
    /\ UNCHANGED engineVars
    /\ UNCHANGED auxVars

\* TimerFire without the `pendingRequests.has(requestId)` test: the callback
\* rejects whatever became of the request.
TimerFireUnconditional(requestId) ==
    /\ requestId \in timers
    /\ clock = sentAt[requestId] + TIMEOUT_MS
    /\ timers' = timers \ {requestId}
    /\ pendingRequests' = pendingRequests \ {requestId}
    /\ futures' = SetAt(futures, requestId, "timeout")
    /\ settles' = SetAt(settles, requestId, settles[requestId] + 1)
    /\ lastEvent' = [type |-> "timeout", requestId |-> requestId]
    /\ UNCHANGED <<worker, requestIdCounter, isReady, readyPromise, readyResolve,
                   syncTimer, initPc, toWorker, toMain, clock, mainScores, sentAt>>
    /\ UNCHANGED engineVars
    /\ UNCHANGED auxVars

\* The setTimeout callback of getNextPost, TIMEOUT_MS after the request.
TimerFire(requestId) ==
    /\ requestId \in timers
    /\ clock = sentAt[requestId] + TIMEOUT_MS
    /\ timers' = timers \ {requestId}
    /\ IF requestId \in pendingRequests
       THEN /\ pendingRequests' = pendingRequests \ {requestId}
            /\ futures' = SetAt(futures, requestId, "timeout")
            /\ settles' = SetAt(settles, requestId, settles[requestId] + 1)
       ELSE UNCHANGED <<pendingRequests, futures, settles>>
    /\ lastEvent' = [type |-> "timeout", requestId |-> requestId]
    /\ UNCHANGED <<worker, requestIdCounter, isReady, readyPromise, readyResolve,
                   syncTimer, initPc, toWorker, toMain, clock, mainScores, sentAt>>
    /\ UNCHANGED engineVars
    /\ UNCHANGED auxVars

Timeout == \E requestId \in timers : TimerFire(requestId)

\* case 'READY' of _handleMessage, and the continuation of init() that the
\* resolved promise schedules before any other task runs.
HandleReady ==
    IF readyResolve
    THEN /\ readyResolve' = FALSE
         /\ readyPromise' = "resolved"
         /\ IF initPc = "awaiting"
            THEN /\ isReady' = TRUE
                 /\ syncTimer' = TRUE
                 /\ initPc' = "done"
            ELSE UNCHANGED <<isReady, syncTimer, initPc>>
    ELSE UNCHANGED <<readyResolve, readyPromise, isReady, syncTimer, initPc>>

\* HandlePostReady without the `if (pending)` test: the reply settles the
\* future of its requestId whether or not the request is still registered.
HandlePostReadyUnchecked(requestId) ==
    /\ pendingRequests' = pendingRequests \ {requestId}
    /\ futures' = SetAt(futures, requestId, "resolved")
    /\ settles' = SetAt(settles, requestId, settles[requestId] + 1)

\* case 'POST_READY' of _handleMessage
HandlePostReady(requestId) ==
    IF requestId \in pendingRequests
    THEN /\ pendingRequests' = pendingRequests \ {requestId}
         /\ futures' = SetAt(futures, requestId, "resolved")
         /\ settles' = SetAt(settles, requestId, settles[requestId] + 1)
    ELSE UNCHANGED <<pendingRequests, futures, settles>>

\* case 'ERROR' of _handleMessage (requestId 0: the message carries none)
\* case 'ERROR' rejecting whatever request the message names, pending or
\* not.
HandleErrorUnchecked(requestId) ==
    IF requestId # 0 /\ requestId \in DOMAIN futures
    THEN /\ pendingRequests' = pendingRequests \ {requestId}
         /\ futures' = SetAt(futures, requestId, "error")
         /\ settles' = SetAt(settles, requestId, settles[requestId] + 1)
    ELSE UNCHANGED <<pendingRequests, futures, settles>>

HandleError(requestId) ==
    IF requestId # 0 /\ requestId \in pendingRequests
    THEN /\ pendingRequests' = pendingRequests \ {requestId}
         /\ futures' = SetAt(futures, requestId, "error")
         /\ settles' = SetAt(settles, requestId, settles[requestId] + 1)
    ELSE UNCHANGED <<pendingRequests, futures, settles>>

\* _handleMessage on the oldest message the worker posted.
HandleMessage ==
    /\ toMain # <<>>
    /\ LET m == Head(toMain)
           requestId == IF "requestId" \in DOMAIN m THEN m.requestId ELSE 0
       IN  /\ CASE m.type = "READY" ->
                     HandleReady /\ UNCHANGED <<pendingRequests, futures, settles>>
                [] m.type = "POST_READY" ->
                     /\ HandlePostReady(requestId)
                     /\ UNCHANGED <<readyResolve, readyPromise, isReady, syncTimer, initPc>>
                [] m.type = "ERROR" ->
                     /\ HandleError(requestId)
                     /\ UNCHANGED <<readyResolve, readyPromise, isReady, syncTimer, initPc>>
                [] OTHER ->
                     UNCHANGED <<pendingRequests, futures, settles, readyResolve,
                                 readyPromise, isReady, syncTimer, initPc>>
           /\ lastEvent' = [type |-> "message", msg |-> m.type, requestId |-> requestId,
                            wasPending |-> requestId \in pendingRequests]
    /\ toMain' = Tail(toMain)
    /\ UNCHANGED <<worker, requestIdCounter, toWorker, timers, clock, mainScores, sentAt>>
    /\ UNCHANGED engineVars
    /\ UNCHANGED auxVars

\* WorkerError without `pendingRequests.clear()`.
WorkerErrorKeepsMap ==
    /\ worker
    /\ futures' = [r \in DOMAIN futures |->
                       IF r \in pendingRequests THEN "crashed" ELSE futures[r]]
    /\ settles' = [r \in DOMAIN settles |->
                       IF r \in pendingRequests THEN settles[r] + 1 ELSE settles[r]]
    /\ pendingRequests' = pendingRequests
    /\ lastEvent' = [type |-> "error"]
    /\ UNCHANGED <<worker, requestIdCounter, isReady, readyPromise, readyResolve,
                   syncTimer, initPc, toWorker, toMain, timers, clock, mainScores, sentAt>>
    /\ UNCHANGED engineVars
    /\ UNCHANGED auxVars

\* _handleError: the worker's error event.
WorkerError ==
    /\ worker
    /\ futures' = [r \in DOMAIN futures |->
                       IF r \in pendingRequests THEN "crashed" ELSE futures[r]]
    /\ settles' = [r \in DOMAIN settles |->
                       IF r \in pendingRequests THEN settles[r] + 1 ELSE settles[r]]
    /\ pendingRequests' = {}
    /\ lastEvent' = [type |-> "error"]
    /\ UNCHANGED <<worker, requestIdCounter, isReady, readyPromise, readyResolve,
                   syncTimer, initPc, toWorker, toMain, timers, clock, mainScores, sentAt>>
    /\ UNCHANGED engineVars
    /\ UNCHANGED auxVars

\* EngineStep on a queue that hands the worker its newest message first.
EngineStepNewestFirst ==
    /\ toWorker # <<>>
    /\ Receive(toWorker[Len(toWorker)])
    /\ toWorker' = SubSeq(toWorker, 1, Len(toWorker) - 1)
    /\ toMain' = toMain \o posted'
    /\ lastEvent' = [type |-> "engine"]
    /\ UNCHANGED <<worker, pendingRequests, requestIdCounter, isReady, readyPromise,
                   readyResolve, syncTimer, initPc, timers, clock, mainScores,
                   futures, settles, sentAt>>
    /\ UNCHANGED auxVars

\* The worker takes the oldest message of its queue and runs self.onmessage.
EngineStep ==
    /\ toWorker # <<>>
    /\ Receive(Head(toWorker))
    /\ toWorker' = Tail(toWorker)
    /\ toMain' = toMain \o posted'
    /\ lastEvent' = [type |-> "engine"]
    /\ UNCHANGED <<worker, pendingRequests, requestIdCounter, isReady, readyPromise,
                   readyResolve, syncTimer, initPc, timers, clock, mainScores,
                   futures, settles, sentAt>>
    /\ UNCHANGED auxVars

\* Time passes while a timeout is armed, but not past a timeout that is due.
Tick ==
    /\ timers # {}
    /\ \A r \in timers : clock < sentAt[r] + TIMEOUT_MS
    /\ LET dues == { sentAt[r] + TIMEOUT_MS : r \in timers }
           next == clock + TickMs
       IN  clock' = IF \E d \in dues : d < next
                    THEN CHOOSE d \in dues : \A e \in dues : d <= e
                    ELSE next
    /\ lastEvent' = [type |-> "tick"]
    /\ UNCHANGED <<worker, pendingRequests, requestIdCounter, isReady, readyPromise,
                   readyResolve, syncTimer, initPc, toWorker, toMain, timers,
                   mainScores, futures, settles, sentAt>>
    /\ UNCHANGED engineVars
    /\ UNCHANGED auxVars

ProtocolNext ==
    \/ CallInitFallback
    \/ CallInit
    \/ CallGetNextPost
    \/ Timeout
    \/ HandleMessage
    \/ WorkerError
    \/ EngineStep
    \/ Tick

ProtocolSpec == Init /\ [][ProtocolNext]_vars

----------------------------------------------------------------------------
(* The score synchronisation: the data-loading call of init(), the hook   *)
(* after engagePost() and the interval timer of _startSyncTimer.          *)

\* The messages the main thread posts in one run of the synchronisation.
MaxSyncMessages == 5

\* Messages posted to the worker so far: those handled and those queued.
SentToWorker == handled + Len(toWorker)

\* The page is loaded with some category scores (restored from storage).
SyncInit ==
    /\ EngineInit
    /\ worker = FALSE
    /\ pendingRequests = {}
    /\ requestIdCounter = 0
    /\ isReady = FALSE
    /\ readyPromise = "null"
    /\ readyResolve = FALSE
    /\ syncTimer = FALSE
    /\ initPc = "idle"
    /\ toWorker = <<>>
    /\ toMain = <<>>
    /\ timers = {}
    /\ clock = 0
    /\ mainScores \in ScoreMaps
    /\ futures = <<>>
    /\ settles = <<>>
    /\ sentAt = <<>>
    /\ lastEvent = [type |-> "NONE"]
    /\ ChunkIdle /\ FetchIdle /\ SelectIdle /\ ExpandIdle /\ CallerIdle /\ LateIdle

\* The data-loading section: workerInitState holds the main thread's
\* categoryScores, and init(pagesArr, workerInitState) runs up to
\* `await this.readyPromise`.
InitWorker ==
    /\ initPc = "idle"
    /\ \E p \in { q \in InitPayloads : q.seenPostIds = {} } :
           toWorker' = Append(toWorker,
                              [type |-> "INIT",
                               payload |-> [p EXCEPT !.categoryScores = mainScores]])
    /\ worker' = TRUE
    /\ readyPromise' = "pending"
    /\ readyResolve' = TRUE
    /\ initPc' = "awaiting"
    /\ lastEvent' = [type |-> "init"]
    /\ UNCHANGED <<pendingRequests, requestIdCounter, isReady, syncTimer, toMain,
                   timers, clock, mainScores, futures, settles, sentAt>>
    /\ UNCHANGED engineVars
    /\ UNCHANGED auxVars

\* syncScores(categoryScores): the message it posts, none without a worker.
syncScores(scores) ==
    IF worker THEN <<[type |-> "UPDATE_SCORES", payload |-> [categoryScores |-> scores]]>>
    ELSE <<>>

\* requestSeenIds()
requestSeenIds ==
    IF worker THEN <<[type |-> "GET_SEEN_IDS"]>> ELSE <<>>

\* engagePost() changes the main thread's categoryScores; the hook after it
\* calls algorithmWorker.syncScores(categoryScores).
EngagePost ==
    /\ worker => SentToWorker < MaxSyncMessages
    /\ \E scores \in ScoreMaps \ {mainScores} :
           /\ mainScores' = scores
           /\ toWorker' = toWorker \o syncScores(scores)
    /\ lastEvent' = [type |-> "engagePost"]
    /\ UNCHANGED <<worker, pendingRequests, requestIdCounter, isReady, readyPromise,
                   readyResolve, syncTimer, initPc, toMain, timers, clock,
                   futures, settles, sentAt>>
    /\ UNCHANGED engineVars
    /\ UNCHANGED auxVars

\* The setInterval callback of _startSyncTimer.
SyncTimerFire ==
    /\ syncTimer
    /\ SentToWorker + 2 <= MaxSyncMessages
    /\ toWorker' = toWorker \o syncScores(mainScores) \o requestSeenIds
    /\ lastEvent' = [type |-> "syncTimer"]
    /\ UNCHANGED <<worker, pendingRequests, requestIdCounter, isReady, readyPromise,
                   readyResolve, syncTimer, initPc, toMain, timers, clock, mainScores,
                   futures, settles, sentAt>>
    /\ UNCHANGED engineVars
    /\ UNCHANGED auxVars

SyncNext ==
    \/ InitWorker
    \/ EngagePost
    \/ SyncTimerFire
    \/ EngineStep
    \/ HandleMessage

\* The page loads its data, both event loops keep taking their messages and
\* the interval timer keeps firing.
SyncFairness ==
    /\ WF_vars(InitWorker)
    /\ WF_vars(SyncTimerFire)
    /\ WF_vars(EngineStep)
    /\ WF_vars(HandleMessage)

SyncSpec == SyncInit /\ [][SyncNext]_vars /\ SyncFairness

----------------------------------------------------------------------------
(* The chunk cache and the prefetcher: classes ChunkCache and              *)
(* ChunkPrefetcher of src/dagster_definitions/SETUP.md.                    *)

\* The cache is constructed with maxChunks in 1..MaxCapacity.
MaxCapacity == 3
\* Cache operations in one run of the cache specification.
MaxChunkOps == 5
\* Calls of prefetchRelated in one run of the prefetcher specification.
MaxHints == 3

\* constructor(cache, maxConcurrent = 2)
MAX_CONCURRENT == 2
\* predictChunks: Array.from(candidateChunks).slice(0, 3)
PREDICT_LIMIT == 3

Without(seq, id) == SelectSeq(seq, LAMBDA x : x # id)

\* The cache as the methods below take and return it.  useOrder and
\* evicted are history: useOrder lists the cached ids by their most recent
\* get or set, oldest first; evicted lists what the operation deleted from
\* the Map, each with the id that was least recently used at that moment.
CacheState ==
    [cache |-> cache, accessOrder |-> accessOrder, maxChunks |-> maxChunks,
     useOrder |-> useOrder, evicted |-> <<>>]

\* has(chunkId)
has(c, chunkId) == chunkId \in c.cache

\* get(chunkId): a hit moves the id to the end of accessOrder.
get(c, chunkId) ==
    IF chunkId \in c.cache
    THEN [c EXCEPT !.accessOrder = Append(Without(@, chunkId), chunkId),
                   !.useOrder = Append(Without(@, chunkId), chunkId)]
    ELSE c

\* while (this.cache.size >= n && this.accessOrder.length > 0)
\*     { evictId = this.accessOrder.shift(); this.cache.delete(evictId) }
RECURSIVE EvictWhile(_, _)
EvictWhile(c, n) ==
    IF Cardinality(c.cache) >= n /\ Len(c.accessOrder) > 0
    THEN LET evictId == Head(c.accessOrder)
         IN  EvictWhile([c EXCEPT !.accessOrder = Tail(@),
                                  !.cache = @ \ {evictId},
                                  !.useOrder = Without(@, evictId),
                                  !.evicted = IF evictId \in c.cache
                                              THEN Append(@, [id |-> evictId,
                                                              lru |-> Head(c.useOrder)])
                                              ELSE @], n)
    ELSE c

\* set with `if` in the place of `while`: at most one id is shifted off
\* accessOrder before the insertion.
setEvictOnce(c, chunkId) ==
    LET c1 == IF Cardinality(c.cache) >= c.maxChunks /\ Len(c.accessOrder) > 0
              THEN [c EXCEPT !.accessOrder = Tail(@),
                             !.cache = @ \ {Head(c.accessOrder)},
                             !.useOrder = Without(@, Head(c.accessOrder))]
              ELSE c
    IN  [c1 EXCEPT !.cache = @ \cup {chunkId},
                   !.accessOrder = Append(@, chunkId),
                   !.useOrder = Append(Without(@, chunkId), chunkId)]

\* set(chunkId, data)
set(c, chunkId) ==
    LET c1 == EvictWhile(c, c.maxChunks)
    IN  [c1 EXCEPT !.cache = @ \cup {chunkId},
                   !.accessOrder = Append(@, chunkId),
                   !.useOrder = Append(Without(@, chunkId), chunkId)]

\* reduceSize(targetChunks): while (this.cache.size > targetChunks && ...)
reduceSize(c, targetChunks) == EvictWhile(c, targetChunks + 1)

\* Page ids asked of getArticleText are 1..NumPages.
NumPages == 3
PageIds == 1..NumPages

Undefined == "undefined"

\* The data that set(chunkId, data) stores with a chunk id: a chunk with
\* the texts of pages 1 and 2, a chunk whose articles object is empty, a
\* chunk without an articles property, and a chunk whose entry for page 3
\* has no text.
ChunkData(chunkId) ==
    CASE chunkId % 4 = 1 ->
             [hasArticles |-> TRUE,
              articles |-> [p \in {1, 2} |->
                               [text |-> IF p = 1 THEN "Hello world" ELSE "Goodbye"]]]
      [] chunkId % 4 = 2 ->
             [hasArticles |-> TRUE, articles |-> [p \in {} |-> [text |-> Undefined]]]
      [] chunkId % 4 = 3 ->
             [hasArticles |-> FALSE, articles |-> [p \in {} |-> [text |-> Undefined]]]
      [] OTHER ->
             [hasArticles |-> TRUE, articles |-> [p \in {3} |-> [text |-> Undefined]]]

\* getArticleText with plain member accesses in the place of ?. : a missing
\* chunk, articles object or entry is a TypeError.
getArticleTextUnchained(c, pageId, chunkId) ==
    LET chunk == ChunkData(chunkId)
        found == /\ chunkId \in c.cache
                 /\ chunk.hasArticles
                 /\ pageId \in DOMAIN chunk.articles
    IN  [c |-> get(c, chunkId),
         threw |-> ~found,
         text |-> IF found THEN chunk.articles[pageId].text ELSE Undefined]

\* getArticleText(pageId, chunkId):
\*     const chunk = this.get(chunkId);
\*     return chunk?.articles?.[String(pageId)]?.text;
getArticleText(c, pageId, chunkId) ==
    LET chunk == ChunkData(chunkId)
    IN  [c |-> get(c, chunkId),
         threw |-> FALSE,
         text |-> IF chunkId \notin c.cache THEN Undefined
                  ELSE IF ~chunk.hasArticles THEN Undefined
                  ELSE IF pageId \notin DOMAIN chunk.articles THEN Undefined
                  ELSE chunk.articles[pageId].text]

\* The prefetcher with its cache, as its methods take and return it.
\* netFetches and startLog are history.
PrefetcherState ==
    [c |-> CacheState, pending |-> pending, queue |-> queue,
     netFetches |-> netFetches, startLog |-> <<>>]

\* History: an id that processQueue took off the queue, whether a fetch was
\* started for it, and whether it was cached or being fetched at that moment.
Dequeued(p, chunkId, started) ==
    [id |-> chunkId, started |-> started,
     cached |-> chunkId \in p.c.cache,
     inFlight |-> p.netFetches[chunkId] > 0]

\* processQueue with the `continue` test left out: whatever id comes off
\* the queue is fetched.
RECURSIVE processQueueNoSkip(_)
processQueueNoSkip(p) ==
    IF Len(p.queue) > 0 /\ Cardinality(p.pending) < MAX_CONCURRENT
    THEN LET chunkId == Head(p.queue)
         IN  processQueueNoSkip(
                 [p EXCEPT !.queue = Tail(@),
                           !.pending = @ \cup {chunkId},
                           !.netFetches[chunkId] = @ + 1,
                           !.startLog = Append(@, Dequeued(p, chunkId, TRUE))])
    ELSE p

\* processQueue without the `this.pending.size < this.maxConcurrent` test.
RECURSIVE processQueueNoCeiling(_)
processQueueNoCeiling(p) ==
    IF Len(p.queue) > 0
    THEN LET chunkId == Head(p.queue)
             p1 == [p EXCEPT !.queue = Tail(@)]
         IN  IF has(p.c, chunkId) \/ chunkId \in p.pending
             THEN processQueueNoCeiling(
                      [p1 EXCEPT !.startLog = Append(@, Dequeued(p, chunkId, FALSE))])
             ELSE processQueueNoCeiling(
                      [p1 EXCEPT !.pending = @ \cup {chunkId},
                                 !.netFetches[chunkId] = @ + 1,
                                 !.startLog = Append(@, Dequeued(p, chunkId, TRUE))])
    ELSE p

\* processQueue: shifts ids off the queue while fewer than maxConcurrent
\* fetches are pending; an id that is cached or pending is skipped, any
\* other is added to pending and fetchChunk is called for it.
RECURSIVE processQueue(_)
processQueue(p) ==
    IF Len(p.queue) > 0 /\ Cardinality(p.pending) < MAX_CONCURRENT
    THEN LET chunkId == Head(p.queue)
             p1 == [p EXCEPT !.queue = Tail(@)]
         IN  IF has(p.c, chunkId) \/ chunkId \in p.pending
             THEN processQueue(
                      [p1 EXCEPT !.startLog = Append(@, Dequeued(p, chunkId, FALSE))])
             ELSE processQueue(
                      [p1 EXCEPT !.pending = @ \cup {chunkId},
                                 !.netFetches[chunkId] = @ + 1,
                                 !.startLog = Append(@, Dequeued(p, chunkId, TRUE))])
    ELSE p

\* The for loop of prefetchRelated over chunks[i..].
RECURSIVE PushHints(_, _, _)
PushHints(p, chunks, i) ==
    IF i > Len(chunks) THEN p
    ELSE PushHints(IF ~has(p.c, chunks[i]) /\ chunks[i] \notin p.pending
                   THEN [p EXCEPT !.queue = Append(@, chunks[i])]
                   ELSE p, chunks, i + 1)

\* prefetchRelated(currentPost), chunks being what predictChunks returned.
prefetchRelated(p, chunks) == processQueue(PushHints(p, chunks, 1))

\* What predictChunks can return: up to PREDICT_LIMIT distinct ids that
\* are not in the cache.
predictChunks ==
    { chunks \in UNION { [1..n -> ChunkIds \ cache] : n \in 1..PREDICT_LIMIT } :
          \A i, j \in DOMAIN chunks : i < j => chunks[i] < chunks[j] }

\* new ChunkCache(maxChunks); new ChunkPrefetcher(chunkCache)
ChunkInit ==
    /\ maxChunks \in 1..MaxCapacity
    /\ cache = {}
    /\ accessOrder = <<>>
    /\ pending = {}
    /\ queue = <<>>
    /\ useOrder = <<>>
    /\ lastOp = NoOp
    /\ netFetches = [id \in ChunkIds |-> 0]
    /\ startLog = <<>>
    /\ chunkOps = 0

SetCache(c) ==
    /\ cache' = c.cache
    /\ accessOrder' = c.accessOrder
    /\ useOrder' = c.useOrder
    /\ UNCHANGED maxChunks

SetPrefetcher(p) ==
    /\ SetCache(p.c)
    /\ pending' = p.pending
    /\ queue' = p.queue
    /\ netFetches' = p.netFetches
    /\ startLog' = p.startLog

\* chunkCache.get(chunkId)
CacheGet ==
    /\ chunkOps < MaxChunkOps
    /\ \E chunkId \in ChunkIds :
           /\ SetCache(get(CacheState, chunkId))
           /\ lastOp' = [op |-> "get", id |-> chunkId, hit |-> chunkId \in cache,
                         full |-> Cardinality(cache) >= maxChunks, evicted |-> <<>>]
    /\ chunkOps' = chunkOps + 1
    /\ startLog' = <<>>
    /\ UNCHANGED <<pending, queue, netFetches>>
    /\ UNCHANGED notChunkVars

\* chunkCache.set(chunkId, data)
CacheSet ==
    /\ chunkOps < MaxChunkOps
    /\ \E chunkId \in ChunkIds :
           LET c == set(CacheState, chunkId)
           IN  /\ SetCache(c)
               /\ lastOp' = [op |-> "set", id |-> chunkId, hit |-> chunkId \in cache,
                             full |-> Cardinality(cache) >= maxChunks,
                             evicted |-> c.evicted]
    /\ chunkOps' = chunkOps + 1
    /\ startLog' = <<>>
    /\ UNCHANGED <<pending, queue, netFetches>>
    /\ UNCHANGED notChunkVars

\* chunkCache.reduceSize(targetChunks)
CacheReduceSize ==
    /\ chunkOps < MaxChunkOps
    /\ \E targetChunks \in 0..maxChunks :
           LET c == reduceSize(CacheState, targetChunks)
           IN  /\ SetCache(c)
               /\ lastOp' = [op |-> "reduceSize", id |-> targetChunks, hit |-> FALSE,
                             full |-> Cardinality(cache) >= maxChunks,
                             evicted |-> c.evicted]
    /\ chunkOps' = chunkOps + 1
    /\ startLog' = <<>>
    /\ UNCHANGED <<pending, queue, netFetches>>
    /\ UNCHANGED notChunkVars

\* chunkCache.getArticleText(pageId, chunkId)
CacheGetArticleText ==
    /\ chunkOps < MaxChunkOps
    /\ \E chunkId \in ChunkIds, pageId \in PageIds :
           LET r == getArticleText(CacheState, pageId, chunkId)
           IN  /\ SetCache(r.c)
               /\ lastOp' = [op |-> "getArticleText", id |-> chunkId,
                             hit |-> chunkId \in cache,
                             full |-> Cardinality(cache) >= maxChunks,
                             evicted |-> <<>>, pageId |-> pageId,
                             threw |-> r.threw, text |-> r.text]
    /\ chunkOps' = chunkOps + 1
    /\ startLog' = <<>>
    /\ UNCHANGED <<pending, queue, netFetches>>
    /\ UNCHANGED notChunkVars

CacheNext ==
    \/ CacheGet
    \/ CacheSet
    \/ CacheReduceSize
    \/ CacheGetArticleText

\* The engine and the coordinator idle, a cache of some capacity.
CacheInit ==
    /\ EngineInit /\ CoordInit /\ ChunkInit
    /\ FetchIdle /\ SelectIdle /\ ExpandIdle /\ CallerIdle /\ LateIdle

CacheSpec == CacheInit /\ [][CacheNext]_vars

\* prefetchRelated(currentPost) is called with a hint.
PrefetchRelated ==
    /\ chunkOps < MaxHints
    /\ \E chunks \in predictChunks :
           SetPrefetcher(prefetchRelated(PrefetcherState, chunks))
    /\ chunkOps' = chunkOps + 1
    /\ lastOp' = [NoOp EXCEPT !.op = "prefetchRelated"]
    /\ UNCHANGED notChunkVars

\* A fetchChunk of the prefetcher resolves: .then sets the cache, .finally
\* deletes the id from pending and runs processQueue.
FetchResolve ==
    /\ \E chunkId \in { id \in ChunkIds : netFetches[id] > 0 } :
           LET c == set(CacheState, chunkId)
               p == [PrefetcherState EXCEPT !.c = c,
                                            !.pending = @ \ {chunkId},
                                            !.netFetches[chunkId] = @ - 1]
           IN  /\ SetPrefetcher(processQueue(p))
               /\ lastOp' = [op |-> "set", id |-> chunkId, hit |-> chunkId \in cache,
                             full |-> Cardinality(cache) >= maxChunks,
                             evicted |-> c.evicted]
    /\ UNCHANGED chunkOps
    /\ UNCHANGED notChunkVars

\* A fetchChunk of the prefetcher rejects: .catch logs, .finally deletes
\* the id from pending and runs processQueue.
FetchReject ==
    /\ \E chunkId \in { id \in ChunkIds : netFetches[id] > 0 } :
           LET p == [PrefetcherState EXCEPT !.pending = @ \ {chunkId},
                                            !.netFetches[chunkId] = @ - 1]
           IN  SetPrefetcher(processQueue(p))
    /\ lastOp' = [NoOp EXCEPT !.op = "fetchFailed"]
    /\ UNCHANGED chunkOps
    /\ UNCHANGED notChunkVars

PrefetchNext ==
    \/ PrefetchRelated
    \/ FetchResolve
    \/ FetchReject

PrefetchSpec == CacheInit /\ [][PrefetchNext]_vars

----------------------------------------------------------------------------
(* On-demand text fetching and chunk prefetching: section 6.3 and 6.6 of   *)
(* src/memory/scopes/full-wikipedia-chunked-architecture.md.               *)

\* Articles are 1..NumArticles.
NumArticles == 3
\* Calls of ensureArticleText and prefetchUpcomingChunks in one run.
MaxFetchOps == 4

MAX_PREFETCH_CHUNKS == 3

Articles == 1..NumArticles

\* article.chunkId: the articles are dealt to the chunks in turn, so that
\* the first chunk holds two articles.
chunkIdOf(article) == ((article - 1) % NumTextChunks) + 1

MapSet(m, k, v) == [x \in DOMAIN m \cup {k} |-> IF x = k THEN v ELSE m[x]]

FetchState ==
    [chunkCache |-> chunkCache, chunkFetchPromises |-> chunkFetchPromises,
     articleText |-> articleText, awaiting |-> awaiting, requests |-> requests]

\* fetchChunk(chunkId) starts one network request and returns its promise;
\* warm says that a .then callback caches the chunk.
fetchChunk(f, chunkId, warm) ==
    [f EXCEPT !.requests[chunkId] = Append(@, [st |-> "pending", warm |-> warm])]

\* The promise fetchChunk returned last for chunkId.
NewPromise(f, chunkId) == Len(f.requests[chunkId])

\* ensureArticleText that fetches without looking at chunkFetchPromises.
ensureArticleTextAlwaysFetches(f, article) ==
    LET chunkId == chunkIdOf(article)
    IN  IF article \in DOMAIN f.articleText THEN f
        ELSE IF chunkId \in DOMAIN f.chunkCache
        THEN [f EXCEPT !.articleText = MapSet(@, article, f.chunkCache[chunkId])]
        ELSE LET f1 == fetchChunk(f, chunkId, FALSE)
                 f2 == [f1 EXCEPT !.chunkFetchPromises =
                                      MapSet(@, chunkId, NewPromise(f1, chunkId))]
             IN  [f2 EXCEPT !.awaiting =
                     @ \cup {[article |-> article,
                              promise |-> f2.chunkFetchPromises[chunkId]]}]

\* ensureArticleText(article), up to its await.
ensureArticleText(f, article) ==
    LET chunkId == chunkIdOf(article)
    IN  IF article \in DOMAIN f.articleText THEN f
        ELSE IF chunkId \in DOMAIN f.chunkCache
        THEN [f EXCEPT !.articleText = MapSet(@, article, f.chunkCache[chunkId])]
        ELSE LET f2 == IF chunkId \notin DOMAIN f.chunkFetchPromises
                       THEN LET f1 == fetchChunk(f, chunkId, FALSE)
                            IN  [f1 EXCEPT !.chunkFetchPromises =
                                     MapSet(@, chunkId, NewPromise(f1, chunkId))]
                       ELSE f
             IN  [f2 EXCEPT !.awaiting =
                     @ \cup {[article |-> article,
                              promise |-> f2.chunkFetchPromises[chunkId]]}]

\* ensureArticleText after its await, for a promise that was fulfilled.
resumeEnsureArticleText(f, w) ==
    LET chunkId == chunkIdOf(w.article)
    IN  [f EXCEPT !.chunkCache = MapSet(@, chunkId, w.promise),
                  !.articleText = MapSet(@, w.article, w.promise),
                  !.awaiting = @ \ {w}]

\* The forEach of prefetchUpcomingChunks over chunkIds.slice(0, 3).
RECURSIVE PrefetchEach(_, _, _)
PrefetchEach(f, chunkIds, i) ==
    IF i > Len(chunkIds) \/ i > MAX_PREFETCH_CHUNKS THEN f
    ELSE LET chunkId == chunkIds[i]
         IN  IF chunkId \notin DOMAIN f.chunkFetchPromises
             THEN LET f1 == fetchChunk(f, chunkId, TRUE)
                  IN  PrefetchEach(
                          [f1 EXCEPT !.chunkFetchPromises =
                               MapSet(@, chunkId, NewPromise(f1, chunkId))],
                          chunkIds, i + 1)
             ELSE PrefetchEach(f, chunkIds, i + 1)

\* The chunk ids of the upcoming articles, each once, in order of first
\* appearance: [...new Set(upcoming.map(...))].
RECURSIVE UniqueChunks(_, _, _)
UniqueChunks(upcoming, i, acc) ==
    IF i > Len(upcoming) THEN acc
    ELSE LET chunkId == chunkIdOf(upcoming[i])
         IN  UniqueChunks(upcoming, i + 1,
                 IF \E j \in DOMAIN acc : acc[j] = chunkId THEN acc
                 ELSE Append(acc, chunkId))

prefetchUpcomingChunks(f, upcoming) ==
    LET chunkIds == SelectSeq(UniqueChunks(upcoming, 1, <<>>),
                              LAMBDA id : id \notin DOMAIN f.chunkCache)
    IN  PrefetchEach(f, chunkIds, 1)

\* algorithmWorker.getPrefetchedPostIds(): the ids of the posts in the
\* engine's prefetch queue, at most PREFETCH_SIZE distinct articles.
Upcomings ==
    { u \in UNION { [1..n -> Articles] : n \in 0..PREFETCH_SIZE } :
          \A i, j \in DOMAIN u : i < j => u[i] # u[j] }

\* The upcoming lists, up to the chunk ids they name.
UpcomingLists ==
    LET lists == { UniqueChunks(u, 1, <<>>) : u \in Upcomings }
    IN  { CHOOSE u \in Upcomings : UniqueChunks(u, 1, <<>>) = l : l \in lists }

SetFetch(f) ==
    /\ chunkCache' = f.chunkCache
    /\ chunkFetchPromises' = f.chunkFetchPromises
    /\ articleText' = f.articleText
    /\ awaiting' = f.awaiting
    /\ requests' = f.requests

\* A caller calls ensureArticleText(article).
EnsureArticleText ==
    /\ fetchOps < MaxFetchOps
    /\ \E article \in Articles \ { w.article : w \in awaiting } :
           LET chunkId == chunkIdOf(article)
               f == ensureArticleText(FetchState, article)
           IN  /\ SetFetch(f)
               /\ lastCall' =
                      [op |-> "ensureArticleText", id |-> chunkId,
                       loaded |-> article \in DOMAIN articleText,
                       cached |-> chunkId \in DOMAIN chunkCache,
                       failed |-> /\ requests[chunkId] # <<>>
                                  /\ requests[chunkId][Len(requests[chunkId])].st
                                         = "rejected",
                       issued |-> Len(f.requests[chunkId]) > Len(requests[chunkId])]
    /\ fetchOps' = fetchOps + 1
    /\ UNCHANGED notFetchVars

\* A call suspended at the await goes on: with the chunk when the promise
\* was fulfilled, and by throwing when it was rejected.
ResumeEnsureArticleText ==
    /\ \E w \in awaiting :
           LET st == requests[chunkIdOf(w.article)][w.promise].st
           IN  /\ st # "pending"
               /\ IF st = "fulfilled"
                  THEN SetFetch(resumeEnsureArticleText(FetchState, w))
                  ELSE SetFetch([FetchState EXCEPT !.awaiting = @ \ {w}])
    /\ lastCall' = [NoCall EXCEPT !.op = "resume"]
    /\ UNCHANGED fetchOps
    /\ UNCHANGED notFetchVars

\* The response of a network request arrives and parses; the .then
\* callback of prefetchUpcomingChunks caches the chunk.
ChunkResponse ==
    /\ \E chunkId \in TextChunkIds :
       \E n \in DOMAIN requests[chunkId] :
           /\ requests[chunkId][n].st = "pending"
           /\ requests' = [requests EXCEPT ![chunkId][n].st = "fulfilled"]
           /\ chunkCache' = IF requests[chunkId][n].warm
                            THEN MapSet(chunkCache, chunkId, n)
                            ELSE chunkCache
    /\ lastCall' = [NoCall EXCEPT !.op = "response"]
    /\ UNCHANGED <<chunkFetchPromises, articleText, awaiting, fetchOps>>
    /\ UNCHANGED notFetchVars

\* A network request fails: the promise of fetchChunk is rejected.
ChunkFailure ==
    /\ \E chunkId \in TextChunkIds :
       \E n \in DOMAIN requests[chunkId] :
           /\ requests[chunkId][n].st = "pending"
           /\ requests' = [requests EXCEPT ![chunkId][n].st = "rejected"]
    /\ lastCall' = [NoCall EXCEPT !.op = "failure"]
    /\ UNCHANGED <<chunkCache, chunkFetchPromises, articleText, awaiting, fetchOps>>
    /\ UNCHANGED notFetchVars

\* prefetchUpcomingChunks() runs on a scroll event or a post render.
PrefetchUpcomingChunks ==
    /\ fetchOps < MaxFetchOps
    /\ \E upcoming \in UpcomingLists :
           SetFetch(prefetchUpcomingChunks(FetchState, upcoming))
    /\ lastCall' = [NoCall EXCEPT !.op = "prefetchUpcomingChunks"]
    /\ fetchOps' = fetchOps + 1
    /\ UNCHANGED notFetchVars

FetchNext ==
    \/ EnsureArticleText
    \/ ResumeEnsureArticleText
    \/ ChunkResponse
    \/ ChunkFailure
    \/ PrefetchUpcomingChunks

FetchSpec == Init /\ [][FetchNext]_vars

----------------------------------------------------------------------------
(* getNextPost called directly, one call after the other.                  *)

\* Calls of getNextPost in one run on the pool of three posts.
MaxPicks == 4
\* Calls of getNextPost in one run on the pool of two posts.
MaxSelects == 10

\* A, B (category x) and C (category y).
Pool3 == <<PostA, PostB, PostC>>

\* The module state of the engine once INIT has assigned it the pool pa:
\* scored mode, aggressiveness 50, nothing seen; the category scores are
\* all 0 or {x: 1000, y: 0}, and either no category or every category is
\* explored.
SelectInit(pa) ==
    /\ pagesArr = pa
    /\ categoryScores \in ScoreMaps
    /\ seenPostIds = {}
    /\ categoryLastEngaged = NoCats
    /\ hiddenCategories = {}
    /\ reducedCategories = {}
    /\ boostedCategories = {}
    /\ exploredCategories \in {{}, Cats}
    /\ algorithmAggressiveness = 50
    /\ exploreMode = FALSE
    /\ postsSinceRandom = 0
    /\ lastTopCategory = Null
    /\ consecutiveSameCategory = 0
    /\ prefetchQueue = <<>>
    /\ now = 1
    /\ queueGen = <<>>
    /\ settingsGen = 0
    /\ selLog = NoCalls
    /\ lastMsg = [type |-> "NONE", requestId |-> 0]
    /\ posted = <<>>
    /\ handled = 0
    /\ undelivered = {}

\* The return statements of getRandomPost: in scored mode getNextPost
\* leaves by them only for a serendipity pick.
RandomPaths == {"random", "randomRepeat"}

\* One call of getNextPost(), of at most limit calls.
SelectNext(limit) ==
    /\ selCalls < limit
    /\ \E o \in getNextPostBody(EngineState) :
           LET id == o.s.pagesArr[o.k].id
           IN  /\ pagesArr' = o.s.pagesArr
               /\ seenPostIds' = o.s.seenPostIds
               /\ postsSinceRandom' = o.s.postsSinceRandom
               /\ lastTopCategory' = o.s.lastTopCategory
               /\ consecutiveSameCategory' = o.s.consecutiveSameCategory
               /\ lastSel' = [op |-> "getNextPost", path |-> o.path, k |-> o.k,
                              nth |-> sinceSerendipity + 1,
                              potentialPosts |-> o.potentialPosts,
                              variety |-> VarietyPenaltyCategory(EngineState),
                              tops |-> recentTops]
               /\ recentTops' = LET top == TopCategory(o.s, o.k)
                                IN  IF recentTops = <<>> THEN <<top>>
                                    ELSE <<recentTops[Len(recentTops)], top>>
               /\ sinceSerendipity' = IF o.path \in RandomPaths THEN 0
                                      ELSE sinceSerendipity + 1
               /\ sawSerendipity' = (sawSerendipity \/ o.path \in RandomPaths)
               /\ firstOrder' = IF id \in Range(firstOrder) THEN firstOrder
                                ELSE Append(firstOrder, id)
    /\ selCalls' = selCalls + 1
    /\ UNCHANGED <<categoryScores, categoryLastEngaged, hiddenCategories,
                   reducedCategories, boostedCategories, exploredCategories,
                   algorithmAggressiveness, exploreMode, prefetchQueue, now,
                   queueGen, settingsGen, selLog, lastMsg, posted, handled, undelivered>>
    /\ UNCHANGED <<coordVars, chunkVars, fetchVars, expandVars, callerVars, lateVars>>

\* The engine holds the pool of three posts.
SelectInit3 ==
    /\ SelectInit(Pool3)
    /\ CoordInit /\ ChunkIdle /\ FetchIdle /\ SelectIdle /\ ExpandIdle /\ CallerIdle /\ LateIdle

SelectPick == SelectNext(MaxPicks)

SelectSpec == SelectInit3 /\ [][SelectPick]_vars

\* The engine holds the pool of two posts.
SerendipityInit ==
    /\ SelectInit(Pool)
    /\ CoordInit /\ ChunkIdle /\ FetchIdle /\ SelectIdle /\ ExpandIdle /\ CallerIdle /\ LateIdle

SerendipityNext == SelectNext(MaxSelects)

SerendipitySpec == SerendipityInit /\ [][SerendipityNext]_vars

\* Four posts: A, B, D of category x and C of category y.
PostD == [id |-> 4, thumb |-> FALSE, allCategories |-> <<"x">>, seen |-> 0, score |-> NoScore]
Pool4 == <<PostA, PostB, PostC, PostD>>

\* Calls of getNextPost in one run on the pool of four posts.
MaxVarietyCalls == 4

\* The engine holds the pool of four posts, x scores 1000 and every category
\* is explored (the roulette has nothing to boost).
VarietyInit ==
    /\ SelectInit(Pool4)
    /\ categoryScores = [c \in Cats |-> IF c = "x" THEN 1000 ELSE 0]
    /\ exploredCategories = Cats
    /\ CoordInit /\ ChunkIdle /\ FetchIdle /\ SelectIdle /\ ExpandIdle /\ CallerIdle /\ LateIdle

VarietyNext == SelectNext(MaxVarietyCalls)

VarietySpec == VarietyInit /\ [][VarietyNext]_vars

----------------------------------------------------------------------------
(* The page without a worker: init() where Worker is undefined, and       *)
(* getNextPostAsync of designs/webworker-algorithm.md.  No worker holds a *)
(* copy of the selection variables: they are the page's own, and the      *)
(* synchronous getNextPost() is the code the worker's was ported from.    *)

\* Calls of getNextPostAsync() in one run.
MaxAsyncCalls == 3

\* The page has loaded its posts; the coordinator is constructed.
FallbackInit ==
    /\ SelectInit(Pool)
    /\ CoordInit /\ ChunkIdle /\ FetchIdle /\ SelectIdle /\ ExpandIdle /\ CallerIdle /\ LateIdle

\* algorithmWorker.init(...).then(success => { useWorkerAlgorithm = success })
InitThen ==
    /\ initPc \in {"fallback", "done"}
    /\ useWorkerAlgorithm' = (initPc = "done")
    /\ initPc' = IF initPc = "done" THEN "enabled" ELSE "failed"
    /\ lastEvent' = [type |-> "initSettled"]
    /\ UNCHANGED <<worker, pendingRequests, requestIdCounter, isReady, readyPromise,
                   readyResolve, syncTimer, toWorker, toMain, timers, clock,
                   mainScores, futures, settles, sentAt>>
    /\ UNCHANGED <<lastServed, asyncCalls>>
    /\ UNCHANGED engineVars
    /\ UNCHANGED <<chunkVars, fetchVars, selVars, expandVars, lateVars>>

\* getNextPostAsync that asks the coordinator whatever its state: without a
\* worker, the postMessage of algorithmWorker.getNextPost() throws and the
\* promise handed to the caller is rejected.
GetNextPostAsyncWorkerOnly ==
    /\ asyncCalls < MaxAsyncCalls
    /\ ~worker
    /\ lastServed' = [by |-> "worker", err |-> TRUE, k |-> 0, init |-> initPc]
    /\ asyncCalls' = asyncCalls + 1
    /\ lastEvent' = [type |-> "getNextPostAsync"]
    /\ UNCHANGED <<worker, pendingRequests, requestIdCounter, isReady, readyPromise,
                   readyResolve, syncTimer, initPc, toWorker, toMain, timers, clock,
                   mainScores, futures, settles, sentAt>>
    /\ UNCHANGED useWorkerAlgorithm
    /\ UNCHANGED engineVars
    /\ UNCHANGED <<chunkVars, fetchVars, selVars, expandVars, lateVars>>

\* getNextPostAsync() when `useWorkerAlgorithm && algorithmWorker?.isReady`
\* is false: return getNextPost(), the synchronous selection.  (When it is
\* true the call is CallGetNextPost.)
GetNextPostAsync ==
    /\ asyncCalls < MaxAsyncCalls
    /\ ~(useWorkerAlgorithm /\ isReady)
    /\ \E o \in getNextPostBody(EngineState) :
           /\ pagesArr' = o.s.pagesArr
           /\ seenPostIds' = o.s.seenPostIds
           /\ postsSinceRandom' = o.s.postsSinceRandom
           /\ lastTopCategory' = o.s.lastTopCategory
           /\ consecutiveSameCategory' = o.s.consecutiveSameCategory
           /\ lastServed' = [by |-> "sync", err |-> o.err, k |-> o.k, init |-> initPc]
    /\ asyncCalls' = asyncCalls + 1
    /\ lastEvent' = [type |-> "getNextPostAsync"]
    /\ UNCHANGED <<categoryScores, categoryLastEngaged, hiddenCategories,
                   reducedCategories, boostedCategories, exploredCategories,
                   algorithmAggressiveness, exploreMode, prefetchQueue, now,
                   queueGen, settingsGen, selLog, lastMsg, posted, handled, undelivered>>
    /\ UNCHANGED <<worker, pendingRequests, requestIdCounter, isReady, readyPromise,
                   readyResolve, syncTimer, initPc, toWorker, toMain, timers, clock,
                   mainScores, futures, settles, sentAt>>
    /\ UNCHANGED useWorkerAlgorithm
    /\ UNCHANGED <<chunkVars, fetchVars, selVars, expandVars, lateVars>>

FallbackNext ==
    \/ CallInitFallback
    \/ InitThen
    \/ GetNextPostAsync

FallbackSpec == FallbackInit /\ [][FallbackNext]_vars

----------------------------------------------------------------------------
(* The decay factor over time: getDecayFactor of part_008 while hours     *)
(* pass and categories are engaged.                                       *)

\* Hours that pass in one run (Date.now() goes from 1 to MaxHours).
MaxHours == 6
\* ENGAGE_CATEGORY messages in one run.
MaxEngagements == 2

\* case 'ENGAGE_CATEGORY': the timestamp is the main thread's Date.now(),
\* which may be an hour ahead of the worker's.
RecvEngageCategory ==
    /\ handled < MaxEngagements
    /\ \E c \in Cats, timestamp \in {now, now + 1} :
           Receive([type |-> "ENGAGE_CATEGORY",
                    payload |-> [category |-> c, timestamp |-> timestamp]])
    /\ UNCHANGED coordVars
    /\ UNCHANGED auxVars

\* An hour passes: Date.now() is an hour later.
HourPasses ==
    /\ now < MaxHours
    /\ now' = now + 1
    /\ UNCHANGED <<pagesArr, categoryScores, seenPostIds, categoryLastEngaged,
                   hiddenCategories, reducedCategories, boostedCategories,
                   exploredCategories, algorithmAggressiveness, exploreMode,
                   postsSinceRandom, lastTopCategory, consecutiveSameCategory,
                   prefetchQueue, queueGen, settingsGen, selLog, lastMsg,
                   posted, handled, undelivered>>
    /\ UNCHANGED coordVars
    /\ UNCHANGED auxVars

\* The scoring asks for the decay factor of a category.
ReadDecay ==
    /\ \E c \in Cats :
           lastDecay' = [category |-> c,
                         elapsed |-> IF categoryLastEngaged[c] = 0 THEN 0
                                     ELSE now - categoryLastEngaged[c],
                         factor |-> getDecayFactor(EngineState, c)]
    /\ UNCHANGED <<engineVars, coordVars, chunkVars, fetchVars, selVars,
                   expandVars, callerVars, registerVars>>

DecayNext ==
    \/ RecvEngageCategory
    \/ HourPasses
    \/ ReadDecay

DecaySpec == Init /\ [][DecayNext]_vars

----------------------------------------------------------------------------
(* Registration: handleRegister of src/src/index.ts over the users table  *)
(* of ensureTables, with NumRequests requests in flight at once.          *)

\* The usernames that the requests carry; "a!" fails USERNAME_REGEX.
Usernames == {"alice", "Alice", "bob", "a!"}

\* COLLATE NOCASE: the column compares usernames without regard to case.
NoCase(username) == IF username = "Alice" THEN "alice" ELSE username

\* validateRegistration(body.username, body.password), the password valid.
validateRegistration(username) == username # "a!"

\* INSERT INTO users (username, ...) with no UNIQUE constraint on username:
\* the row is always added.
insertUserNoConstraint(rows, username, r) ==
    [ok |-> TRUE,
     rows |-> Append(rows, [id |-> Len(rows) + 1, username |-> username, by |-> r])]

\* INSERT INTO users (username, ...) as one statement of the database:
\* username is UNIQUE COLLATE NOCASE, so the statement fails with
\* 'UNIQUE constraint failed' when a row compares equal; otherwise the row
\* gets the next id.  by is history: the request that added the row.
insertUser(rows, username, r) ==
    IF \E i \in DOMAIN rows : NoCase(rows[i].username) = NoCase(username)
    THEN [ok |-> FALSE, rows |-> rows]
    ELSE [ok |-> TRUE,
          rows |-> Append(rows, [id |-> Len(rows) + 1, username |-> username,
                                 by |-> r])]

Respond(r, status) ==
    /\ regStatus' = [regStatus EXCEPT ![r] = status]
    /\ regPc' = [regPc EXCEPT ![r] = "done"]

\* body = await request.json(); validateRegistration: 400 or go on to
\* await hashPassword(password, salt).
RegValidate(r) ==
    /\ regPc[r] = "received"
    /\ IF validateRegistration(regBody[r])
       THEN /\ regPc' = [regPc EXCEPT ![r] = "hashing"]
            /\ UNCHANGED regStatus
       ELSE Respond(r, 400)
    /\ UNCHANGED <<users, regBody, lastDecay>>
    /\ UNCHANGED <<engineVars, coordVars, chunkVars, fetchVars, selVars,
                   expandVars, callerVars>>

\* hashPassword resolves; the INSERT runs in the database.  A constraint
\* failure is caught and answered with 409.
RegInsert(r) ==
    /\ regPc[r] = "hashing"
    /\ LET result == insertUser(users, regBody[r], r)
       IN  /\ users' = result.rows
           /\ IF result.ok
              THEN /\ regPc' = [regPc EXCEPT ![r] = "signing"]
                   /\ UNCHANGED regStatus
              ELSE Respond(r, 409)
    /\ UNCHANGED <<regBody, lastDecay>>
    /\ UNCHANGED <<engineVars, coordVars, chunkVars, fetchVars, selVars,
                   expandVars, callerVars>>

\* run() and createToken resolve: 201 with the token.
RegCreated(r) ==
    /\ regPc[r] = "signing"
    /\ Respond(r, 201)
    /\ UNCHANGED <<users, regBody, lastDecay>>
    /\ UNCHANGED <<engineVars, coordVars, chunkVars, fetchVars, selVars,
                   expandVars, callerVars>>

RegisterNext ==
    \E r \in Requests :
        \/ RegValidate(r)
        \/ RegInsert(r)
        \/ RegCreated(r)

\* NumRequests registration requests have arrived, each with some
\* username; the table is empty or holds bob.
RegisterInit ==
    /\ EngineInit /\ CoordInit /\ ChunkIdle
    /\ FetchIdle /\ SelectIdle /\ ExpandIdle /\ CallerIdle
    /\ lastDecay = NoDecay
    /\ users \in {<<>>, <<[id |-> 1, username |-> "bob", by |-> 0]>>}
    /\ regPc = [r \in Requests |-> "received"]
    /\ regBody \in [Requests -> Usernames]
    /\ regStatus = [r \in Requests |-> 0]

RegisterSpec == RegisterInit /\ [][RegisterNext]_vars

----------------------------------------------------------------------------
(* Readiness: init() of AlgorithmWorkerManager when the worker dies       *)
(* before it has answered INIT.                                           *)

\* The worker dies before handling INIT (its script fails to load or to
\* run): worker.onerror calls _handleError, which rejects the pending
\* requests and clears the map; the messages posted to the worker are
\* never handled.
WorkerCrash ==
    /\ worker
    /\ initPc = "awaiting"
    /\ toWorker # <<>>
    /\ Head(toWorker).type = "INIT"
    /\ toWorker' = <<>>
    /\ futures' = [r \in DOMAIN futures |->
                       IF r \in pendingRequests THEN "crashed" ELSE futures[r]]
    /\ settles' = [r \in DOMAIN settles |->
                       IF r \in pendingRequests THEN settles[r] + 1 ELSE settles[r]]
    /\ pendingRequests' = {}
    /\ lastEvent' = [type |-> "crash"]
    /\ UNCHANGED <<worker, requestIdCounter, isReady, readyPromise, readyResolve,
                   syncTimer, initPc, toMain, timers, clock, mainScores, sentAt>>
    /\ UNCHANGED engineVars
    /\ UNCHANGED auxVars

ReadinessNext ==
    \/ ProtocolNext
    \/ WorkerCrash

\* The worker's and the main thread's event loops run every message that
\* is queued for them.
ReadinessFairness ==
    /\ WF_vars(EngineStep)
    /\ WF_vars(HandleMessage)

ReadinessSpec == Init /\ [][ReadinessNext]_vars /\ ReadinessFairness

----------------------------------------------------------------------------
(* The category expansion: getRecursiveCategories of src/DESIGN.md.        *)

\* The categories of the hierarchy are 1..NumCategories.
NumCategories == 3
Categories == 1..NumCategories

\* The hierarchies: every category has an array of distinct parent
\* categories, in increasing order; cycles and self-loops are among them.
ParentArrays ==
    { a \in UNION { [1..n -> Categories] : n \in 0..NumCategories } :
          \A i, j \in DOMAIN a : i < j => a[i] < a[j] }
Hierarchies == [Categories -> ParentArrays]

\* The state a call works on: the cache and the visited set of the
\* top-level call, and the set the call returned.
Expansion(memo, visited, result) ==
    [recursiveCache |-> memo, visited |-> visited, result |-> result]

RECURSIVE getRecursiveCategories(_, _, _)
RECURSIVE ParentLoop(_, _, _, _, _)

\* for (const parent of parentCategories) { result.add(every cat of
\* getRecursiveCategories(parent, visited)) }
ParentLoop(map, e, parentCategories, i, result) ==
    IF i > Len(parentCategories) THEN [e EXCEPT !.result = result]
    ELSE LET e1 == getRecursiveCategories(map, e, parentCategories[i])
         IN  ParentLoop(map, e1, parentCategories, i + 1, result \cup e1.result)

\* getRecursiveCategories(category, visited)
getRecursiveCategories(map, e, category) ==
    IF category \in DOMAIN e.recursiveCache
    THEN [e EXCEPT !.result = e.recursiveCache[category]]
    ELSE IF category \in e.visited
    THEN [e EXCEPT !.result = {}]
    ELSE LET e1 == [e EXCEPT !.visited = @ \cup {category}]
             parentCategories == IF category \in DOMAIN map THEN map[category]
                                 ELSE <<>>
             e2 == ParentLoop(map, e1, parentCategories, 1, {category})
         IN  [e2 EXCEPT !.recursiveCache = MapSet(@, category, e2.result)]

\* The categories reachable from the set cats through categoryMap.
RECURSIVE Reachable(_, _)
Reachable(map, cats) ==
    LET more == cats \cup UNION { Range(map[c]) : c \in cats \cap DOMAIN map }
    IN  IF more = cats THEN cats ELSE Reachable(map, more)

\* The index is loaded with some hierarchy; nothing is expanded yet.
ExpandInit ==
    /\ categoryMap \in Hierarchies
    /\ recursiveCache = EmptyMap
    /\ lastExpanded = NoExpansion
    /\ EngineInit /\ CoordInit /\ ChunkIdle /\ FetchIdle /\ SelectIdle /\ CallerIdle /\ LateIdle

\* A record's category is expanded: getRecursiveCategories(category).
ExpandCategory ==
    /\ \E category \in Categories :
           LET e == getRecursiveCategories(categoryMap,
                                           Expansion(recursiveCache, {}, {}),
                                           category)
           IN  /\ recursiveCache' = e.recursiveCache
               /\ lastExpanded' = [category |-> category, result |-> e.result]
    /\ UNCHANGED categoryMap
    /\ UNCHANGED notExpandVars

ExpandSpec == ExpandInit /\ [][ExpandCategory]_vars

----------------------------------------------------------------------------
(* Properties of the engine, stated of Spec.  selLog summarises the calls *)
(* of getNextPost made by the handler that ran last.                      *)

\* C1: while the pool still holds a post that was not selected before,
\* getNextPost never returns a post that was: no call of the last handler
\* returned an id of seenPostIds while an id outside seenPostIds existed.
C1_NoPrematureRepeat ==
    selLog.premature = 0

\* C2: when every post of a non-empty pool has been selected before, a call
\* of getNextPost makes a bounded number of draws (the tries of its loops
\* and one fallback draw) and then returns a post that was selected before;
\* it does not throw.
C2_ExhaustedPoolRepeats ==
    /\ selLog.exhaustedRepeats = selLog.exhausted
    /\ selLog.exhaustedDraws <= Max2(RandomTries, 2 * SampleSize) + 1

\* A GET_NEXT_POST was answered with a post by a selection on an exhausted pool.
C2_Witness ==
    /\ lastMsg.type = "GET_NEXT_POST"
    /\ selLog.exhausted > 0
    /\ selLog.exhaustedRepeats > 0
    /\ Len(posted) = 1
    /\ posted[1].type = "POST_READY"

\* C7: RESET clears the engine's seen-id set wholesale: when the handler of
\* RESET returns, seenPostIds holds no id but those of the posts its refill
\* has just selected into the prefetch queue.
C7_ResetClearsSeen ==
    lastMsg.type = "RESET" =>
        seenPostIds \subseteq { prefetchQueue[i].id : i \in DOMAIN prefetchQueue }

\* C8: a RESET leaves categoryScores and exploredCategories as they were.
C8_ResetKeepsScoresAndExplored ==
    [][ (lastMsg'.type = "RESET" /\ handled' = handled + 1) =>
            /\ categoryScores' = categoryScores
            /\ exploredCategories' = exploredCategories ]_vars

\* A RESET was handled while a category had a score and one was explored.
C8_Witness ==
    /\ lastMsg.type = "RESET"
    /\ \E c \in Cats : categoryScores[c] # 0
    /\ exploredCategories # {}
    /\ Len(posted) = 1
    /\ posted[1].type = "READY"

C10_NoStaleDelivery ==
    \A i \in DOMAIN posted :
        posted[i].type = "POST_READY" => posted[i].gen = settingsGen

\* A post was delivered after the filters or the settings had been changed.
C10_Witness ==
    /\ lastMsg.type = "GET_NEXT_POST"
    /\ settingsGen > 0
    /\ Len(posted) = 1
    /\ posted[1].type = "POST_READY"

Results(s) == { [k |-> o.k, err |-> o.err] : o \in getNextPostBody(s) }

\* The handlers that select under the mode they find or set, and assign
\* neither the pool nor the counters themselves.
SelectingTypes == {"GET_NEXT_POST", "PREFETCH", "UPDATE_FILTERS", "UPDATE_SETTINGS"}

\* C22: while explore mode is on or the aggressiveness is 0, what a
\* selection can return is the same whatever the category scores and the
\* filter sets are, and a handler's selections change no post's score and
\* none of postsSinceRandom, lastTopCategory, consecutiveSameCategory.
C22_ExploreBypassesScoring ==
    [][/\ (exploreMode \/ algorithmAggressiveness = 0) =>
              \A scores \in ScoreMaps : \A hidden, reduced, boosted \in SUBSET Cats :
                  Results([EngineState EXCEPT !.categoryScores = scores,
                                              !.hiddenCategories = hidden,
                                              !.reducedCategories = reduced,
                                              !.boostedCategories = boosted])
                      = Results(EngineState)
       /\ (/\ handled' = handled + 1
           /\ lastMsg'.type \in SelectingTypes
           /\ (exploreMode' \/ algorithmAggressiveness' = 0)) =>
              /\ postsSinceRandom' = postsSinceRandom
              /\ lastTopCategory' = lastTopCategory
              /\ consecutiveSameCategory' = consecutiveSameCategory
              /\ \A k \in DOMAIN pagesArr : pagesArr'[k].score = pagesArr[k].score
      ]_vars

\* After scored selections left their marks, a GET_NEXT_POST was handled
\* with the aggressiveness at 0 and made a selection.
C22_Witness ==
    /\ lastMsg.type = "GET_NEXT_POST"
    /\ algorithmAggressiveness = 0
    /\ ~exploreMode
    /\ selLog.calls > 0
    /\ postsSinceRandom > 0
    /\ \E k \in DOMAIN pagesArr : pagesArr[k].score # NoScore

\* C31: the seen count of every post never goes down in a step of the
\* engine, whatever message it handles, unless the message is a RESET.
C31_SeenCountNeverDecreases ==
    [][ (handled' = handled + 1 /\ lastMsg'.type # "RESET") =>
            \A k \in DOMAIN pagesArr :
                /\ k \in DOMAIN pagesArr'
                /\ pagesArr'[k].id = pagesArr[k].id
                /\ pagesArr'[k].seen >= pagesArr[k].seen ]_vars

\* A selection has raised the count of a post that had been selected before.
C31_Witness ==
    /\ lastMsg.type \in {"GET_NEXT_POST", "PREFETCH", "UPDATE_FILTERS", "UPDATE_SETTINGS"}
    /\ selLog.calls > 0
    /\ handled >= 2
    /\ \E k \in DOMAIN pagesArr : pagesArr[k].seen >= 2

\* C32: the prefetch queue never holds more than PREFETCH_SIZE (3) posts,
\* and posts leave it in the order they were put in: a GET_NEXT_POST
\* delivers the oldest post and keeps the others in their order, ahead of
\* the posts its refill adds, and a PREFETCH only adds posts at the end.
C32_QueueBoundedFifo ==
    [][ /\ Len(prefetchQueue) <= PREFETCH_SIZE
        /\ Len(prefetchQueue') <= PREFETCH_SIZE
        /\ (lastMsg'.type = "GET_NEXT_POST" /\ handled' = handled + 1
               /\ Len(prefetchQueue) > 0) =>
                /\ posted'[1].type = "POST_READY"
                /\ posted'[1].payload.post = Head(prefetchQueue)
                /\ Len(prefetchQueue') >= Len(prefetchQueue) - 1
                /\ SubSeq(prefetchQueue', 1, Len(prefetchQueue) - 1) = Tail(prefetchQueue)
        /\ (lastMsg'.type = "PREFETCH" /\ handled' = handled + 1) =>
                /\ Len(prefetchQueue') >= Len(prefetchQueue)
                /\ SubSeq(prefetchQueue', 1, Len(prefetchQueue)) = prefetchQueue ]_vars

\* The post delivered was the oldest of a queue that held another post
\* behind it, which now heads the full queue.
C32_Witness ==
    /\ lastMsg.type = "GET_NEXT_POST"
    /\ handled >= 2
    /\ Len(posted) = 1
    /\ posted[1].type = "POST_READY"
    /\ Len(prefetchQueue) = PREFETCH_SIZE
    /\ posted[1].payload.post.id # prefetchQueue[1].id

\* C23: after filters whose hidden set contains category c were pushed,
\* no post that getNextPost returns has the category c.  Stated of the
\* posts the UPDATE_FILTERS handler selected into the emptied queue.
C23_HiddenNeverReturned ==
    lastMsg.type = "UPDATE_FILTERS" =>
        \A i \in DOMAIN prefetchQueue :
            Range(prefetchQueue[i].allCategories) \cap hiddenCategories = {}

\* C25: the engine's copy of the category scores changes only in a step
\* that handles an INIT or an UPDATE_SCORES message; the handler of every
\* other message (selection, prefetch refill, filter or setting update,
\* reset, ...) leaves it as it was.
C25_ScoresChangeOnlyBySync ==
    [][ /\ categoryScores' # categoryScores =>
            /\ handled' = handled + 1
            /\ lastMsg'.type \in {"INIT", "UPDATE_SCORES"}
        /\ (handled' = handled + 1 /\ lastMsg'.type \notin {"INIT", "UPDATE_SCORES"}) =>
            categoryScores' = categoryScores ]_vars

\* A selection ran on scored posts while a category had a score.
C25_Witness ==
    /\ lastMsg.type \in {"GET_NEXT_POST", "PREFETCH", "UPDATE_FILTERS",
                         "UPDATE_SETTINGS", "RESET"}
    /\ \E c \in Cats : categoryScores[c] # 0
    /\ selLog.calls > 0
    /\ \E k \in DOMAIN pagesArr : pagesArr[k].score # NoScore

----------------------------------------------------------------------------
(* Properties of the request/reply protocol, stated of ProtocolSpec.      *)

\* C3: the engine posts exactly one reply to a GET_NEXT_POST, a POST_READY
\* or an ERROR, with the requestId of the request; and the coordinator, on
\* that reply, settles the future registered under that requestId and
\* leaves every other future as it was.
C3_OneReplySameRequestId ==
    /\ [](lastMsg.type = "GET_NEXT_POST" =>
            /\ Len(posted) = 1
            /\ posted[1].type \in {"POST_READY", "ERROR"}
            /\ posted[1].requestId = lastMsg.requestId)
    /\ [][ (toMain # <<>> /\ toMain' = Tail(toMain)
              /\ Head(toMain).type \in {"POST_READY", "ERROR"}) =>
            LET m == Head(toMain)
            IN  /\ \A r \in DOMAIN futures :
                       r # m.requestId => /\ futures'[r] = futures[r]
                                          /\ settles'[r] = settles[r]
                /\ pendingRequests' = pendingRequests \ {m.requestId}
                /\ m.requestId \in pendingRequests =>
                       /\ futures'[m.requestId] =
                              IF m.type = "POST_READY" THEN "resolved" ELSE "error"
                       /\ settles'[m.requestId] = 1 ]_vars

\* A reply resolved the future of its request while another request was
\* still pending.
C3_Witness ==
    /\ lastEvent.type = "message"
    /\ lastEvent.msg = "POST_READY"
    /\ lastEvent.wasPending
    /\ futures[lastEvent.requestId] = "resolved"
    /\ \E r \in pendingRequests : r # lastEvent.requestId

\* C4: a POST_READY or ERROR whose requestId is not (or no longer) in
\* pendingRequests, as after the request timed out, is discarded: handling
\* it settles no future and leaves pendingRequests unchanged.
C4_LateReplyDiscarded ==
    [][ (toMain # <<>> /\ toMain' = Tail(toMain)
           /\ Head(toMain).type \in {"POST_READY", "ERROR"}
           /\ Head(toMain).requestId \notin pendingRequests) =>
            UNCHANGED <<pendingRequests, futures, settles>> ]_vars

\* The reply to a request that had timed out was handled.
C4_Witness ==
    /\ lastEvent.type = "message"
    /\ lastEvent.msg \in {"POST_READY", "ERROR"}
    /\ ~lastEvent.wasPending
    /\ futures[lastEvent.requestId] = "timeout"
    /\ settles[lastEvent.requestId] = 1

\* C5: a request is pending for at most TIMEOUT_MS: its timer is armed as
\* long as it is pending; the timer goes off TIMEOUT_MS after the request
\* was sent, and then a request still pending is rejected with the timeout
\* and removed from pendingRequests, while a request already answered is
\* left as it was.
C5_TimeoutRejectsPending ==
    /\ [](\A r \in pendingRequests :
              r \in timers /\ clock <= sentAt[r] + TIMEOUT_MS)
    /\ [][ \A r \in timers : r \notin timers' =>
              /\ clock = sentAt[r] + TIMEOUT_MS
              /\ r \notin pendingRequests'
              /\ IF r \in pendingRequests
                 THEN futures'[r] = "timeout" /\ settles'[r] = settles[r] + 1
                 ELSE /\ futures'[r] = futures[r]
                      /\ settles'[r] = settles[r]
                      /\ pendingRequests' = pendingRequests ]_vars

\* A timer went off on a request that was still pending.
C5_Witness ==
    /\ lastEvent.type = "timeout"
    /\ futures[lastEvent.requestId] = "timeout"
    /\ lastEvent.requestId \notin pendingRequests
    /\ clock = sentAt[lastEvent.requestId] + TIMEOUT_MS

\* C6: when the worker raises its error event, every request pending at
\* that moment is rejected and pendingRequests is left empty.
C6_CrashRejectsAll ==
    [][ lastEvent'.type = "error" =>
            /\ pendingRequests' = {}
            /\ \A r \in pendingRequests : futures'[r] = "crashed" ]_vars

\* The worker crashed with two requests pending, and both were rejected.
C6_Witness ==
    /\ lastEvent.type = "error"
    /\ pendingRequests = {}
    /\ Cardinality({ r \in DOMAIN futures : futures[r] = "crashed" }) >= 2

\* C27: the engine handles the coordinator's messages in the order they
\* were sent, so the POST_READY replies leave it in the order of their
\* GET_NEXT_POST requests: the replies waiting for the coordinator are in
\* increasing requestId order, and no reply has been posted while an earlier
\* request is still waiting for the engine.
C27_RepliesInRequestOrder ==
    LET replies == { i \in DOMAIN toMain : toMain[i].type = "POST_READY" }
        asked == { k \in DOMAIN toWorker : toWorker[k].type = "GET_NEXT_POST" }
    IN  /\ \A i, j \in replies :
               i < j => toMain[i].requestId < toMain[j].requestId
        /\ \A i \in replies : \A k \in asked :
               toMain[i].requestId < toWorker[k].requestId
        /\ \A k, l \in asked :
               k < l => toWorker[k].requestId < toWorker[l].requestId

\* Two asked were queued together and both replies are on their way.
C27_Witness ==
    /\ Len(toMain) >= 2
    /\ toMain[Len(toMain) - 1].type = "POST_READY"
    /\ toMain[Len(toMain)].type = "POST_READY"
    /\ toMain[Len(toMain)].requestId = 2
    /\ Len(sentAt) = 2
    /\ lastEvent.type = "engine"

\* C28: init() does not resolve before the engine has posted READY in
\* answer to INIT, and the coordinator is not marked ready before it has
\* received that READY: the step that marks it ready, and the step in which
\* init() returns true, is the handling of a READY message, taken when the
\* engine has handled the INIT; and until then the coordinator is not ready.
C28_ReadyOnlyAfterReadyMessage ==
    [][ /\ ((isReady' /\ ~isReady) \/ (initPc' = "done" /\ initPc # "done")) =>
            /\ toMain # <<>>
            /\ Head(toMain).type = "READY"
            /\ lastEvent'.type = "message"
            /\ handled >= 1
            /\ \A k \in DOMAIN toWorker : toWorker[k].type # "INIT"
        /\ (isReady \/ initPc = "done") =>
            /\ readyPromise = "resolved"
            /\ initPc = "done"
            /\ isReady ]_vars

\* init() has returned true: the READY of the INIT was received.
C28_Witness ==
    /\ isReady
    /\ initPc = "done"
    /\ lastEvent.type = "message"
    /\ lastEvent.msg = "READY"

\* The requestIds that the coordinator or a message in flight still holds.
HeldRequestIds ==
    pendingRequests \cup timers
        \cup { toWorker[k].requestId :
                   k \in { n \in DOMAIN toWorker : "requestId" \in DOMAIN toWorker[n] } }
        \cup { toMain[k].requestId :
                   k \in { n \in DOMAIN toMain : "requestId" \in DOMAIN toMain[n] } }

\* C30: the requestIds one coordinator issues are strictly increasing, so
\* no two requests, pending, timed out or answered, share a requestId: the
\* counter never goes down, every id held anywhere is at most the counter,
\* and the id of a request being posted is above the counter, hence above
\* every id issued before it.
C30_RequestIdsIncrease ==
    [][ /\ requestIdCounter' >= requestIdCounter
        /\ \A r \in HeldRequestIds : r <= requestIdCounter
        /\ (Len(toWorker') > Len(toWorker)
              /\ toWorker'[Len(toWorker')].type = "GET_NEXT_POST") =>
               LET requestId == toWorker'[Len(toWorker')].requestId
               IN  /\ requestId > requestIdCounter
                   /\ requestIdCounter' = requestId
                   /\ requestId \notin HeldRequestIds
                   /\ requestId = Len(sentAt) + 1 ]_vars

\* A second request was issued after the first had been settled.
C30_Witness ==
    /\ requestIdCounter = 2
    /\ Len(futures) = 2
    /\ futures[1] # "pending"
    /\ futures[2] = "pending"
    /\ pendingRequests = {2}
    /\ lastEvent.type = "getNextPost"

----------------------------------------------------------------------------
(* Properties of the score synchronisation, stated of SyncSpec.           *)

\* C26: if the main thread's category scores stop changing while the
\* engine stays alive, the engine's copy of the scores eventually equals the
\* main thread's and stays equal to it from then on.
C26_ReplicaConverges ==
    <>[][mainScores' = mainScores]_vars => <>[](categoryScores = mainScores)

\* The engine took over scores that the main thread changed after INIT.
C26_Witness ==
    /\ lastMsg.type = "UPDATE_SCORES"
    /\ handled >= 3
    /\ categoryScores = mainScores
    /\ toWorker = <<>>
    /\ lastEvent.type = "engine"

----------------------------------------------------------------------------
(* Properties of the chunk cache, stated of CacheSpec.                    *)

\* C12: whatever get, set and reduceSize calls are made, the cache never
\* holds more chunks than maxChunks.
C12_SizeWithinCapacity ==
    Cardinality(cache) <= maxChunks

\* A set on a full cache evicted an entry and the cache is full again.
C12_Witness ==
    /\ lastOp.op = "set"
    /\ lastOp.full
    /\ Len(lastOp.evicted) >= 1
    /\ Cardinality(cache) = maxChunks
    /\ Len(accessOrder) > Cardinality(cache)

\* C13: when set inserts a new chunk into a full cache, the one entry it
\* evicts is the entry whose most recent get or set is the oldest.
C13_EvictsLeastRecentlyUsed ==
    (lastOp.op = "set" /\ lastOp.full /\ ~lastOp.hit) =>
        /\ Len(lastOp.evicted) = 1
        /\ lastOp.evicted[1].id = lastOp.evicted[1].lru

----------------------------------------------------------------------------
(* Properties of the prefetcher, stated of PrefetchSpec.                  *)

InFlight == { id \in ChunkIds : netFetches[id] > 0 }

\* C16: at every moment at most MAX_CONCURRENT fetches of the prefetcher
\* are in flight, however hints arrive and fetches resolve or reject.
C16_ConcurrencyCeiling ==
    /\ Cardinality(InFlight) <= MAX_CONCURRENT
    /\ \A id \in ChunkIds : netFetches[id] <= 1
    /\ pending = InFlight

\* MAX_CONCURRENT fetches are in flight and a hinted id waits in the queue.
C16_Witness ==
    /\ Cardinality(InFlight) = MAX_CONCURRENT
    /\ Len(queue) > 0
    /\ Head(queue) \notin cache
    /\ Head(queue) \notin pending

\* C17: the prefetcher starts no fetch for a chunk id that is in the cache
\* or has a fetch in flight at the moment the fetch would start.
C17_NoRedundantFetch ==
    \A i \in DOMAIN startLog :
        startLog[i].started => ~startLog[i].cached /\ ~startLog[i].inFlight

\* One run of processQueue dropped an id that had become cached while it
\* waited in the queue and started a fetch for another.
C17_Witness ==
    /\ \E i \in DOMAIN startLog : ~startLog[i].started /\ startLog[i].cached
    /\ \E i \in DOMAIN startLog : startLog[i].started

----------------------------------------------------------------------------
(* Properties of the text fetching, stated of FetchSpec.                  *)

\* C14: a fetch of a chunk id asked for while another fetch of the same id
\* is in flight, by ensureArticleText or by the prefetch, makes no second
\* network request, and the callers waiting for the id wait for the same
\* promise and so receive the same chunk.
C14_FetchDeduplicated ==
    /\ \A id \in TextChunkIds :
           Cardinality({ n \in DOMAIN requests[id] :
                             requests[id][n].st = "pending" }) <= 1
    /\ \A v, w \in awaiting :
           chunkIdOf(v.article) = chunkIdOf(w.article) => v.promise = w.promise
    /\ \A a, b \in DOMAIN articleText :
           chunkIdOf(a) = chunkIdOf(b) => articleText[a] = articleText[b]

\* Two calls of ensureArticleText wait for the one request of their chunk,
\* which the prefetch started.
C14_Witness ==
    \E v, w \in awaiting :
        /\ v.article # w.article
        /\ chunkIdOf(v.article) = chunkIdOf(w.article)
        /\ Len(requests[chunkIdOf(v.article)]) = 1
        /\ requests[chunkIdOf(v.article)][1].st = "pending"
        /\ requests[chunkIdOf(v.article)][1].warm

\* C15: when a chunk fetch fails its in-flight marker is cleared and the
\* cache gains no entry for it, so that a later fetch of the same id makes a
\* fresh network request.
C15_FailedFetchForgotten ==
    /\ \A id \in DOMAIN chunkFetchPromises :
           requests[id][chunkFetchPromises[id]].st # "rejected"
    /\ \A id \in DOMAIN chunkCache :
           requests[id][chunkCache[id]].st = "fulfilled"
    /\ (/\ lastCall.op = "ensureArticleText"
        /\ lastCall.failed
        /\ ~lastCall.loaded
        /\ ~lastCall.cached) => lastCall.issued

----------------------------------------------------------------------------
(* Properties of the selection, stated of SerendipitySpec and SelectSpec. *)

\* C18: in scored mode, counting the calls of getNextPost since the last
\* serendipity pick (or since the start), a serendipity pick never happens
\* before the 5th call and always happens by the 10th, and the counter
\* postsSinceRandom is 0 after each serendipity pick.
C18_SerendipityWindow ==
    /\ sinceSerendipity <= 9
    /\ postsSinceRandom = sinceSerendipity
    /\ lastSel.path \in RandomPaths =>
           /\ lastSel.nth \in 5..10
           /\ postsSinceRandom = 0

\* The first nine calls were scored selections and the 10th call was the
\* serendipity pick.
C18_Witness ==
    /\ lastSel.path \in RandomPaths
    /\ lastSel.nth = 10
    /\ selCalls = 10

\* C19: a scored selection that does not take the weighted-random branch
\* returns a post of maximum score among the scored unseen sample, the
\* first such post of the sample.
C19_NonWeightedTakesMaximum ==
    lastSel.path \in {"highest", "first"} =>
        LET pp == lastSel.potentialPosts
            best == pagesArr[lastSel.k].score
        IN  /\ \A i \in DOMAIN pp : pagesArr[pp[i]].score <= best
            /\ \A i \in DOMAIN pp :
                   pagesArr[pp[i]].score = best => \E j \in 1..i : pp[j] = lastSel.k

\* C20: with the pool A [x], B [x], C [y], the scores {x: 1000, y: 0},
\* aggressiveness 50, explore mode off, no serendipity pick and no roulette
\* draw (every category is explored), C is not returned before both A and B
\* have been returned.  Stated of the selections whose scored sample held
\* a post other than C: a sample of C alone can return nothing else.
C20_CAfterAAndB ==
    (/\ categoryScores = [c \in Cats |-> IF c = "x" THEN 1000 ELSE 0]
     /\ exploredCategories = Cats
     /\ algorithmAggressiveness = 50
     /\ ~exploreMode
     /\ ~sawSerendipity
     /\ lastSel.op = "getNextPost"
     /\ pagesArr[lastSel.k].id = PostC.id
     /\ \E i \in DOMAIN lastSel.potentialPosts :
            pagesArr[lastSel.potentialPosts[i]].id # PostC.id)
        => {PostA.id, PostB.id} \subseteq Range(firstOrder)

\* The return statements of the pick: the sample had an unseen post and was
\* scored.
PickPaths == {"weighted", "highest", "first"}

\* C21: during a scored selection the variety penalty is applied to a
\* category exactly when that category was the top-contributing category of
\* the winners of the two (or more) selections immediately before it; in
\* every other case no category receives the penalty.
C21_VarietyPenaltyAfterRun ==
    lastSel.path \in PickPaths =>
        LET tops == lastSel.tops
        IN  lastSel.variety =
                IF Len(tops) = 2 /\ tops[1] = tops[2] THEN tops[1] ELSE Null

----------------------------------------------------------------------------
(* Properties of the category expansion, stated of ExpandSpec.            *)

\* C24: for every hierarchy, cycles included, the memoized expansion of a
\* category is the set of the categories reachable from it through the
\* hierarchy, in whatever order the categories are expanded.
C24_ExpansionIsClosure ==
    /\ \A c \in DOMAIN recursiveCache :
           recursiveCache[c] = Reachable(categoryMap, {c})
    /\ lastExpanded.category \in Categories =>
           lastExpanded.result = Reachable(categoryMap, {lastExpanded.category})

----------------------------------------------------------------------------
(* Properties of the page without a worker, stated of FallbackSpec.       *)

\* C29: when the worker cannot be created, init() creates no worker and
\* reports failure (useWorkerAlgorithm stays false), and every later
\* getNextPostAsync() is served by the synchronous getNextPost(), which
\* returns a post of the pool and throws nothing.
C29_FallbackServesEveryRequest ==
    /\ initPc \in {"fallback", "failed"} =>
           /\ ~worker
           /\ toWorker = <<>>
           /\ ~isReady
           /\ ~syncTimer
           /\ ~useWorkerAlgorithm
    /\ lastServed.init \in {"fallback", "failed"} =>
           /\ lastServed.by = "sync"
           /\ ~lastServed.err
           /\ lastServed.k \in DOMAIN pagesArr

\* Two posts were served after init() had reported failure.
C29_Witness ==
    /\ initPc = "failed"
    /\ lastServed.init = "failed"
    /\ lastServed.by = "sync"
    /\ asyncCalls >= 2
    /\ Cardinality(seenPostIds) = 2

----------------------------------------------------------------------------
(* Properties of the decay factor, stated of DecaySpec.                   *)

\* The decay factor of category c when t hours have passed since its last
\* engagement (c has been engaged).
DecayAfter(c, t) ==
    getDecayFactor([EngineState EXCEPT !.now = categoryLastEngaged[c] + t], c)

----------------------------------------------------------------------------
(* Properties of ChunkCache.getArticleText and of accessOrder, stated of  *)
(* CacheSpec.                                                             *)

\* The chunk stored under chunkId has an entry for pageId.
HasEntry(chunkId, pageId) ==
    /\ ChunkData(chunkId).hasArticles
    /\ pageId \in DOMAIN ChunkData(chunkId).articles

\* C34: getArticleText(articleId, chunkId) does not throw; it returns
\* undefined when the chunk is not cached or the cached chunk has no entry
\* for the article, and the article's text when both are present.
C34_GetArticleTextTotal ==
    lastOp.op = "getArticleText" =>
        /\ ~lastOp.threw
        /\ (~lastOp.hit \/ ~HasEntry(lastOp.id, lastOp.pageId)) =>
               lastOp.text = Undefined
        /\ (lastOp.hit /\ HasEntry(lastOp.id, lastOp.pageId)) =>
               lastOp.text = ChunkData(lastOp.id).articles[lastOp.pageId].text

\* The text of a cached article was returned.
C34_Witness ==
    /\ lastOp.op = "getArticleText"
    /\ lastOp.hit
    /\ lastOp.text = "Goodbye"

\* A cached chunk without an articles property was asked for a page.
C34_WitnessNoArticles ==
    /\ lastOp.op = "getArticleText"
    /\ lastOp.hit
    /\ ~ChunkData(lastOp.id).hasArticles
    /\ lastOp.text = Undefined

\* C40: after every ChunkCache operation (get, set, reduceSize),
\* accessOrder lists exactly the chunk ids held in the cache, each exactly
\* once, also after set() with a chunk id that is already cached.
C40_AccessOrderListsCacheOnce ==
    /\ {accessOrder[i] : i \in DOMAIN accessOrder} = cache
    /\ Len(accessOrder) = Cardinality(cache)

----------------------------------------------------------------------------
(* Properties of the registration, stated of RegisterSpec.                *)

\* The requests that carry the username of request r.
SameName(r) == {q \in Requests : NoCase(regBody[q]) = NoCase(regBody[r])}

\* C35: when registration requests for one username are processed
\* concurrently, exactly one is answered with 201 and creates the user and
\* the others with 409; never two successes and never a 500.
C35_OneRegistrationWins ==
    /\ \A r \in Requests : regStatus[r] # 500
    /\ \A r, q \in Requests :
           (q \in SameName(r) /\ q # r) =>
               ~(regStatus[r] = 201 /\ regStatus[q] = 201)
    /\ \A r \in Requests :
           ( /\ validateRegistration(regBody[r])
             /\ \A q \in SameName(r) : regPc[q] = "done"
             /\ ~\E i \in DOMAIN users :
                    /\ users[i].by = 0
                    /\ NoCase(users[i].username) = NoCase(regBody[r]) ) =>
               /\ Cardinality({q \in SameName(r) : regStatus[q] = 201}) = 1
               /\ \A q \in SameName(r) : regStatus[q] \in {201, 409}
               /\ Cardinality({i \in DOMAIN users :
                                  NoCase(users[i].username) = NoCase(regBody[r])}) = 1

\* Two requests for one fresh username were both answered: the INSERT of
\* request 2 ran first and it got 201, request 1 got 409.
C35_Witness ==
    /\ regBody[1] = "alice" /\ regBody[2] = "alice"
    /\ regStatus[1] = 409 /\ regStatus[2] = 201
    /\ Len(users) = 1

----------------------------------------------------------------------------
(* Properties of the seen-id set, stated of Spec.                         *)

QueuedIds == {prefetchQueue[i].id : i \in DOMAIN prefetchQueue}

\* C36: every article id that a selection added to the seen-id set is
\* still in the prefetch queue or has been sent in a POST_READY; clearing
\* the queue on UPDATE_FILTERS, UPDATE_SETTINGS or RESET leaves no
\* undelivered article marked seen.
C36_SelectedIsQueuedOrDelivered ==
    \A id \in undelivered : id \in seenPostIds => id \in QueuedIds

\* C37: after every handled message, the id of an article record is in the
\* seen-id set if and only if the record's seenCount is at least 1.
C37_SeenSetMatchesSeenCount ==
    handled >= 1 =>
        \A k \in DOMAIN pagesArr :
            pagesArr[k].id \in seenPostIds <=> pagesArr[k].seen >= 1

----------------------------------------------------------------------------
(* Properties of the coordinator's futures, stated of ProtocolSpec.       *)

\* C38: every future returned by getNextPost is settled at most once over
\* all interleavings of POST_READY, ERROR, timeout and worker crash: once
\* its requestId has left the pending-request map, no later event resolves
\* or rejects it.
C38_SettledAtMostOnce ==
    [][ /\ \A r \in DOMAIN settles : settles[r] <= 1
        /\ \A r \in DOMAIN settles' : settles'[r] <= 1
        /\ \A r \in DOMAIN futures :
               r \notin pendingRequests =>
                   /\ r \notin pendingRequests'
                   /\ futures'[r] = futures[r]
                   /\ settles'[r] = settles[r] ]_vars

\* The ERROR reply to a request arrived after the request had timed out.
C38_Witness ==
    /\ lastEvent.type = "message"
    /\ lastEvent.msg = "ERROR"
    /\ lastEvent.requestId \in DOMAIN futures
    /\ ~lastEvent.wasPending
    /\ futures[lastEvent.requestId] = "timeout"
    /\ settles[lastEvent.requestId] = 1

----------------------------------------------------------------------------
(* Properties of init(), stated of ReadinessSpec.                         *)

\* C39: every init() call eventually settles: when the engine answers INIT
\* with ERROR or crashes before sending READY, init() does not stay
\* pending and the callers waiting on readiness are released or rejected.
C39_InitEventuallySettles ==
    (initPc = "awaiting") ~> (initPc # "awaiting" /\ readyPromise # "pending")

====
